---- MODULE Spec2Model ----
(***************************************************************************)
(* Model of src/app.py (Gustavo Financial): the GerenciadorDados storage   *)
(* layer over the Firestore collections 'usuarios' and 'lancamentos', the  *)
(* login screen and the pages of app_principal.                            *)
(*                                                                         *)
(* A str is modelled as the sequence of the code points of its characters, *)
(* so that the code's strip(), lower() and replace() are computed          *)
(* character by character. Amounts are integers (the code stores           *)
(* float(valor)). A                                                        *)
(* Firestore document is a function from its field names to values, a      *)
(* collection a function from document ids to documents.                   *)
(***************************************************************************)
EXTENDS Integers, Sequences, FiniteSets, TLC

VARIABLES
    usuarios,        \* collection 'usuarios': doc id -> profile document
    lancamentos,     \* collection 'lancamentos': doc id -> transaction document
    usuario_logado,  \* st.session_state['usuario_logado'] (None or an e-mail)
    relogio,         \* server clock: the commit time of the latest write
    ultima,          \* the latest call or page run, its inputs and its outcome
    em_voo,          \* writer -> its document.set() request sent, not yet committed
    rerun_pendente   \* the login called st.rerun(), the run has not started

vars == <<usuarios, lancamentos, usuario_logado, relogio, ultima, em_voo,
          rerun_pendente>>

----------------------------------------------------------------------------
(* Bounds of the model. *)

\* the server clock stops here: at most MaxRelogio writes in a run
MaxRelogio == 2
\* amounts typed on screen range over 0..MaxValor
MaxValor == 1
\* datetime.now().year, the middle entry of the year selector
AnoAtual == 2026

----------------------------------------------------------------------------
(* Python text operations. *)

None == "None"

\* st.session_state['usuario_logado'] = None. The script tests only the
\* truthiness of the value, and None and the empty text are both false
SemUsuario == <<>>

\* the characters of ASCII of code points 32 to 95, in order
ASCII_A ==
    <<" ", "!", "\"", "#", "$", "%", "&", "'", "(", ")", "*", "+", ",",
      "-", ".", "/", "0", "1", "2", "3", "4", "5", "6", "7", "8", "9", ":",
      ";", "<", "=", ">", "?", "@", "A", "B", "C", "D", "E", "F", "G", "H",
      "I", "J", "K", "L", "M", "N", "O", "P", "Q", "R", "S", "T", "U", "V",
      "W", "X", "Y", "Z", "[", "\\", "]", "^", "_">>

\* the characters of ASCII of code points 97 to 126
ASCII_B ==
    <<"a", "b", "c", "d", "e", "f", "g", "h", "i", "j", "k", "l", "m", "n",
      "o", "p", "q", "r", "s", "t", "u", "v", "w", "x", "y", "z", "{", "|",
      "}", "~">>

\* the characters of Latin-1 of code points 161 to 172
LATIN1_A ==
    <<"¡", "¢", "£", "¤", "¥", "¦", "§", "¨", "©", "ª", "«", "¬">>

\* the characters of Latin-1 of code points 174 to 255
LATIN1_B ==
    <<"®", "¯", "°", "±", "²", "³", "´", "µ", "¶", "·", "¸", "¹", "º", "»",
      "¼", "½", "¾", "¿", "À", "Á", "Â", "Ã", "Ä", "Å", "Æ", "Ç", "È", "É",
      "Ê", "Ë", "Ì", "Í", "Î", "Ï", "Ð", "Ñ", "Ò", "Ó", "Ô", "Õ", "Ö", "×",
      "Ø", "Ù", "Ú", "Û", "Ü", "Ý", "Þ", "ß", "à", "á", "â", "ã", "ä", "å",
      "æ", "ç", "è", "é", "ê", "ë", "ì", "í", "î", "ï", "ð", "ñ", "ò", "ó",
      "ô", "õ", "ö", "÷", "ø", "ù", "ú", "û", "ü", "ý", "þ", "ÿ">>

\* ord(c) of a character written in this module
ord(c) ==
    IF \E i \in DOMAIN ASCII_A : ASCII_A[i] = c
    THEN 31 + CHOOSE i \in DOMAIN ASCII_A : ASCII_A[i] = c
    ELSE IF \E i \in DOMAIN ASCII_B : ASCII_B[i] = c
    THEN 96 + CHOOSE i \in DOMAIN ASCII_B : ASCII_B[i] = c
    ELSE IF \E i \in DOMAIN LATIN1_A : LATIN1_A[i] = c
    THEN 160 + CHOOSE i \in DOMAIN LATIN1_A : LATIN1_A[i] = c
    ELSE 173 + CHOOSE i \in DOMAIN LATIN1_B : LATIN1_B[i] = c

\* a str written in the source: the code points of its characters
literal(s) == [i \in 1..Len(s) |-> ord(s[i])]

\* the lower-case mappings of single characters in the Unicode database of
\* the interpreter (14.0.0), as <<first, last, step, delta>>: the code
\* points first, first + step, ..., last map to themselves plus delta
MINUSCULAS ==
    {<<65, 90, 1, 32>>, <<192, 214, 1, 32>>, <<216, 222, 1, 32>>,
     <<256, 302, 2, 1>>, <<306, 310, 2, 1>>, <<313, 327, 2, 1>>,
     <<330, 374, 2, 1>>, <<376, 376, 1, -121>>, <<377, 381, 2, 1>>,
     <<385, 385, 1, 210>>, <<386, 388, 2, 1>>, <<390, 390, 1, 206>>,
     <<391, 391, 1, 1>>, <<393, 394, 1, 205>>, <<395, 395, 1, 1>>,
     <<398, 398, 1, 79>>, <<399, 399, 1, 202>>, <<400, 400, 1, 203>>,
     <<401, 401, 1, 1>>, <<403, 403, 1, 205>>, <<404, 404, 1, 207>>,
     <<406, 406, 1, 211>>, <<407, 407, 1, 209>>, <<408, 408, 1, 1>>,
     <<412, 412, 1, 211>>, <<413, 413, 1, 213>>, <<415, 415, 1, 214>>,
     <<416, 420, 2, 1>>, <<422, 422, 1, 218>>, <<423, 423, 1, 1>>,
     <<425, 425, 1, 218>>, <<428, 428, 1, 1>>, <<430, 430, 1, 218>>,
     <<431, 431, 1, 1>>, <<433, 434, 1, 217>>, <<435, 437, 2, 1>>,
     <<439, 439, 1, 219>>, <<440, 440, 1, 1>>, <<444, 444, 1, 1>>,
     <<452, 452, 1, 2>>, <<453, 453, 1, 1>>, <<455, 455, 1, 2>>,
     <<456, 456, 1, 1>>, <<458, 458, 1, 2>>, <<459, 475, 2, 1>>,
     <<478, 494, 2, 1>>, <<497, 497, 1, 2>>, <<498, 500, 2, 1>>,
     <<502, 502, 1, -97>>, <<503, 503, 1, -56>>, <<504, 542, 2, 1>>,
     <<544, 544, 1, -130>>, <<546, 562, 2, 1>>, <<570, 570, 1, 10795>>,
     <<571, 571, 1, 1>>, <<573, 573, 1, -163>>, <<574, 574, 1, 10792>>,
     <<577, 577, 1, 1>>, <<579, 579, 1, -195>>, <<580, 580, 1, 69>>,
     <<581, 581, 1, 71>>, <<582, 590, 2, 1>>, <<880, 882, 2, 1>>,
     <<886, 886, 1, 1>>, <<895, 895, 1, 116>>, <<902, 902, 1, 38>>,
     <<904, 906, 1, 37>>, <<908, 908, 1, 64>>, <<910, 911, 1, 63>>,
     <<913, 929, 1, 32>>, <<932, 939, 1, 32>>, <<975, 975, 1, 8>>,
     <<984, 1006, 2, 1>>, <<1012, 1012, 1, -60>>, <<1015, 1015, 1, 1>>,
     <<1017, 1017, 1, -7>>, <<1018, 1018, 1, 1>>, <<1021, 1023, 1, -130>>,
     <<1024, 1039, 1, 80>>, <<1040, 1071, 1, 32>>, <<1120, 1152, 2, 1>>,
     <<1162, 1214, 2, 1>>, <<1216, 1216, 1, 15>>, <<1217, 1229, 2, 1>>,
     <<1232, 1326, 2, 1>>, <<1329, 1366, 1, 48>>, <<4256, 4293, 1, 7264>>,
     <<4295, 4295, 1, 7264>>, <<4301, 4301, 1, 7264>>,
     <<5024, 5103, 1, 38864>>, <<5104, 5109, 1, 8>>,
     <<7312, 7354, 1, -3008>>, <<7357, 7359, 1, -3008>>,
     <<7680, 7828, 2, 1>>, <<7838, 7838, 1, -7615>>, <<7840, 7934, 2, 1>>,
     <<7944, 7951, 1, -8>>, <<7960, 7965, 1, -8>>, <<7976, 7983, 1, -8>>,
     <<7992, 7999, 1, -8>>, <<8008, 8013, 1, -8>>, <<8025, 8031, 2, -8>>,
     <<8040, 8047, 1, -8>>, <<8072, 8079, 1, -8>>, <<8088, 8095, 1, -8>>,
     <<8104, 8111, 1, -8>>, <<8120, 8121, 1, -8>>, <<8122, 8123, 1, -74>>,
     <<8124, 8124, 1, -9>>, <<8136, 8139, 1, -86>>, <<8140, 8140, 1, -9>>,
     <<8152, 8153, 1, -8>>, <<8154, 8155, 1, -100>>, <<8168, 8169, 1, -8>>,
     <<8170, 8171, 1, -112>>, <<8172, 8172, 1, -7>>,
     <<8184, 8185, 1, -128>>, <<8186, 8187, 1, -126>>,
     <<8188, 8188, 1, -9>>, <<8486, 8486, 1, -7517>>,
     <<8490, 8490, 1, -8383>>, <<8491, 8491, 1, -8262>>,
     <<8498, 8498, 1, 28>>, <<8544, 8559, 1, 16>>, <<8579, 8579, 1, 1>>,
     <<9398, 9423, 1, 26>>, <<11264, 11311, 1, 48>>,
     <<11360, 11360, 1, 1>>, <<11362, 11362, 1, -10743>>,
     <<11363, 11363, 1, -3814>>, <<11364, 11364, 1, -10727>>,
     <<11367, 11371, 2, 1>>, <<11373, 11373, 1, -10780>>,
     <<11374, 11374, 1, -10749>>, <<11375, 11375, 1, -10783>>,
     <<11376, 11376, 1, -10782>>, <<11378, 11378, 1, 1>>,
     <<11381, 11381, 1, 1>>, <<11390, 11391, 1, -10815>>,
     <<11392, 11490, 2, 1>>, <<11499, 11501, 2, 1>>,
     <<11506, 11506, 1, 1>>, <<42560, 42604, 2, 1>>,
     <<42624, 42650, 2, 1>>, <<42786, 42798, 2, 1>>,
     <<42802, 42862, 2, 1>>, <<42873, 42875, 2, 1>>,
     <<42877, 42877, 1, -35332>>, <<42878, 42886, 2, 1>>,
     <<42891, 42891, 1, 1>>, <<42893, 42893, 1, -42280>>,
     <<42896, 42898, 2, 1>>, <<42902, 42920, 2, 1>>,
     <<42922, 42922, 1, -42308>>, <<42923, 42923, 1, -42319>>,
     <<42924, 42924, 1, -42315>>, <<42925, 42925, 1, -42305>>,
     <<42926, 42926, 1, -42308>>, <<42928, 42928, 1, -42258>>,
     <<42929, 42929, 1, -42282>>, <<42930, 42930, 1, -42261>>,
     <<42931, 42931, 1, 928>>, <<42932, 42946, 2, 1>>,
     <<42948, 42948, 1, -48>>, <<42949, 42949, 1, -42307>>,
     <<42950, 42950, 1, -35384>>, <<42951, 42953, 2, 1>>,
     <<42960, 42960, 1, 1>>, <<42966, 42968, 2, 1>>,
     <<42997, 42997, 1, 1>>, <<65313, 65338, 1, 32>>,
     <<66560, 66599, 1, 40>>, <<66736, 66771, 1, 40>>,
     <<66928, 66964, 2, 39>>, <<66929, 66937, 2, 39>>,
     <<66941, 66953, 2, 39>>, <<66957, 66961, 2, 39>>,
     <<66965, 66965, 1, 39>>, <<68736, 68786, 1, 64>>,
     <<71840, 71871, 1, 32>>, <<93760, 93791, 1, 32>>,
     <<125184, 125217, 1, 34>>}

\* the code points with the property Cased, as <<first, last>>
COM_CAIXA ==
    {<<65, 90>>, <<97, 122>>, <<170, 170>>, <<181, 181>>, <<186, 186>>,
     <<192, 214>>, <<216, 246>>, <<248, 442>>, <<444, 447>>, <<452, 659>>,
     <<661, 696>>, <<704, 705>>, <<736, 740>>, <<837, 837>>, <<880, 883>>,
     <<886, 887>>, <<890, 893>>, <<895, 895>>, <<902, 902>>, <<904, 906>>,
     <<908, 908>>, <<910, 929>>, <<931, 1013>>, <<1015, 1153>>,
     <<1162, 1327>>, <<1329, 1366>>, <<1376, 1416>>, <<4256, 4293>>,
     <<4295, 4295>>, <<4301, 4301>>, <<4304, 4346>>, <<4349, 4351>>,
     <<5024, 5109>>, <<5112, 5117>>, <<7296, 7304>>, <<7312, 7354>>,
     <<7357, 7359>>, <<7424, 7615>>, <<7680, 7957>>, <<7960, 7965>>,
     <<7968, 8005>>, <<8008, 8013>>, <<8016, 8023>>, <<8025, 8025>>,
     <<8027, 8027>>, <<8029, 8029>>, <<8031, 8061>>, <<8064, 8116>>,
     <<8118, 8124>>, <<8126, 8126>>, <<8130, 8132>>, <<8134, 8140>>,
     <<8144, 8147>>, <<8150, 8155>>, <<8160, 8172>>, <<8178, 8180>>,
     <<8182, 8188>>, <<8305, 8305>>, <<8319, 8319>>, <<8336, 8348>>,
     <<8450, 8450>>, <<8455, 8455>>, <<8458, 8467>>, <<8469, 8469>>,
     <<8473, 8477>>, <<8484, 8484>>, <<8486, 8486>>, <<8488, 8488>>,
     <<8490, 8493>>, <<8495, 8500>>, <<8505, 8505>>, <<8508, 8511>>,
     <<8517, 8521>>, <<8526, 8526>>, <<8544, 8575>>, <<8579, 8580>>,
     <<9398, 9449>>, <<11264, 11492>>, <<11499, 11502>>, <<11506, 11507>>,
     <<11520, 11557>>, <<11559, 11559>>, <<11565, 11565>>,
     <<42560, 42605>>, <<42624, 42653>>, <<42786, 42887>>,
     <<42891, 42894>>, <<42896, 42954>>, <<42960, 42961>>,
     <<42963, 42963>>, <<42965, 42969>>, <<42997, 42998>>,
     <<43000, 43002>>, <<43824, 43866>>, <<43868, 43880>>,
     <<43888, 43967>>, <<64256, 64262>>, <<64275, 64279>>,
     <<65313, 65338>>, <<65345, 65370>>, <<66560, 66639>>,
     <<66736, 66771>>, <<66776, 66811>>, <<66928, 66938>>,
     <<66940, 66954>>, <<66956, 66962>>, <<66964, 66965>>,
     <<66967, 66977>>, <<66979, 66993>>, <<66995, 67001>>,
     <<67003, 67004>>, <<67456, 67456>>, <<67459, 67461>>,
     <<67463, 67504>>, <<67506, 67514>>, <<68736, 68786>>,
     <<68800, 68850>>, <<71840, 71903>>, <<93760, 93823>>,
     <<119808, 119892>>, <<119894, 119964>>, <<119966, 119967>>,
     <<119970, 119970>>, <<119973, 119974>>, <<119977, 119980>>,
     <<119982, 119993>>, <<119995, 119995>>, <<119997, 120003>>,
     <<120005, 120069>>, <<120071, 120074>>, <<120077, 120084>>,
     <<120086, 120092>>, <<120094, 120121>>, <<120123, 120126>>,
     <<120128, 120132>>, <<120134, 120134>>, <<120138, 120144>>,
     <<120146, 120485>>, <<120488, 120512>>, <<120514, 120538>>,
     <<120540, 120570>>, <<120572, 120596>>, <<120598, 120628>>,
     <<120630, 120654>>, <<120656, 120686>>, <<120688, 120712>>,
     <<120714, 120744>>, <<120746, 120770>>, <<120772, 120779>>,
     <<122624, 122633>>, <<122635, 122654>>, <<125184, 125251>>,
     <<127280, 127305>>, <<127312, 127337>>, <<127344, 127369>>}

\* the code points with the property Case_Ignorable, as <<first, last>>
IGNORAVEIS ==
    {<<39, 39>>, <<46, 46>>, <<58, 58>>, <<94, 94>>, <<96, 96>>,
     <<168, 168>>, <<173, 173>>, <<175, 175>>, <<180, 180>>, <<183, 184>>,
     <<688, 879>>, <<884, 885>>, <<890, 890>>, <<900, 901>>, <<903, 903>>,
     <<1155, 1161>>, <<1369, 1369>>, <<1375, 1375>>, <<1425, 1469>>,
     <<1471, 1471>>, <<1473, 1474>>, <<1476, 1477>>, <<1479, 1479>>,
     <<1524, 1524>>, <<1536, 1541>>, <<1552, 1562>>, <<1564, 1564>>,
     <<1600, 1600>>, <<1611, 1631>>, <<1648, 1648>>, <<1750, 1757>>,
     <<1759, 1768>>, <<1770, 1773>>, <<1807, 1807>>, <<1809, 1809>>,
     <<1840, 1866>>, <<1958, 1968>>, <<2027, 2037>>, <<2042, 2042>>,
     <<2045, 2045>>, <<2070, 2093>>, <<2137, 2139>>, <<2184, 2184>>,
     <<2192, 2193>>, <<2200, 2207>>, <<2249, 2306>>, <<2362, 2362>>,
     <<2364, 2364>>, <<2369, 2376>>, <<2381, 2381>>, <<2385, 2391>>,
     <<2402, 2403>>, <<2417, 2417>>, <<2433, 2433>>, <<2492, 2492>>,
     <<2497, 2500>>, <<2509, 2509>>, <<2530, 2531>>, <<2558, 2558>>,
     <<2561, 2562>>, <<2620, 2620>>, <<2625, 2626>>, <<2631, 2632>>,
     <<2635, 2637>>, <<2641, 2641>>, <<2672, 2673>>, <<2677, 2677>>,
     <<2689, 2690>>, <<2748, 2748>>, <<2753, 2757>>, <<2759, 2760>>,
     <<2765, 2765>>, <<2786, 2787>>, <<2810, 2815>>, <<2817, 2817>>,
     <<2876, 2876>>, <<2879, 2879>>, <<2881, 2884>>, <<2893, 2893>>,
     <<2901, 2902>>, <<2914, 2915>>, <<2946, 2946>>, <<3008, 3008>>,
     <<3021, 3021>>, <<3072, 3072>>, <<3076, 3076>>, <<3132, 3132>>,
     <<3134, 3136>>, <<3142, 3144>>, <<3146, 3149>>, <<3157, 3158>>,
     <<3170, 3171>>, <<3201, 3201>>, <<3260, 3260>>, <<3263, 3263>>,
     <<3270, 3270>>, <<3276, 3277>>, <<3298, 3299>>, <<3328, 3329>>,
     <<3387, 3388>>, <<3393, 3396>>, <<3405, 3405>>, <<3426, 3427>>,
     <<3457, 3457>>, <<3530, 3530>>, <<3538, 3540>>, <<3542, 3542>>,
     <<3633, 3633>>, <<3636, 3642>>, <<3654, 3662>>, <<3761, 3761>>,
     <<3764, 3772>>, <<3782, 3782>>, <<3784, 3789>>, <<3864, 3865>>,
     <<3893, 3893>>, <<3895, 3895>>, <<3897, 3897>>, <<3953, 3966>>,
     <<3968, 3972>>, <<3974, 3975>>, <<3981, 3991>>, <<3993, 4028>>,
     <<4038, 4038>>, <<4141, 4144>>, <<4146, 4151>>, <<4153, 4154>>,
     <<4157, 4158>>, <<4184, 4185>>, <<4190, 4192>>, <<4209, 4212>>,
     <<4226, 4226>>, <<4229, 4230>>, <<4237, 4237>>, <<4253, 4253>>,
     <<4348, 4348>>, <<4957, 4959>>, <<5906, 5908>>, <<5938, 5939>>,
     <<5970, 5971>>, <<6002, 6003>>, <<6068, 6069>>, <<6071, 6077>>,
     <<6086, 6086>>, <<6089, 6099>>, <<6103, 6103>>, <<6109, 6109>>,
     <<6155, 6159>>, <<6211, 6211>>, <<6277, 6278>>, <<6313, 6313>>,
     <<6432, 6434>>, <<6439, 6440>>, <<6450, 6450>>, <<6457, 6459>>,
     <<6679, 6680>>, <<6683, 6683>>, <<6742, 6742>>, <<6744, 6750>>,
     <<6752, 6752>>, <<6754, 6754>>, <<6757, 6764>>, <<6771, 6780>>,
     <<6783, 6783>>, <<6823, 6823>>, <<6832, 6862>>, <<6912, 6915>>,
     <<6964, 6964>>, <<6966, 6970>>, <<6972, 6972>>, <<6978, 6978>>,
     <<7019, 7027>>, <<7040, 7041>>, <<7074, 7077>>, <<7080, 7081>>,
     <<7083, 7085>>, <<7142, 7142>>, <<7144, 7145>>, <<7149, 7149>>,
     <<7151, 7153>>, <<7212, 7219>>, <<7222, 7223>>, <<7288, 7293>>,
     <<7376, 7378>>, <<7380, 7392>>, <<7394, 7400>>, <<7405, 7405>>,
     <<7412, 7412>>, <<7416, 7417>>, <<7468, 7530>>, <<7544, 7544>>,
     <<7579, 7679>>, <<8125, 8125>>, <<8127, 8129>>, <<8141, 8143>>,
     <<8157, 8159>>, <<8173, 8175>>, <<8189, 8190>>, <<8203, 8207>>,
     <<8216, 8217>>, <<8228, 8228>>, <<8231, 8231>>, <<8234, 8238>>,
     <<8288, 8292>>, <<8294, 8303>>, <<8305, 8305>>, <<8319, 8319>>,
     <<8336, 8348>>, <<8400, 8432>>, <<11388, 11389>>, <<11503, 11505>>,
     <<11631, 11631>>, <<11647, 11647>>, <<11744, 11775>>,
     <<11823, 11823>>, <<12293, 12293>>, <<12330, 12333>>,
     <<12337, 12341>>, <<12347, 12347>>, <<12441, 12446>>,
     <<12540, 12542>>, <<40981, 40981>>, <<42232, 42237>>,
     <<42508, 42508>>, <<42607, 42610>>, <<42612, 42621>>,
     <<42623, 42623>>, <<42652, 42655>>, <<42736, 42737>>,
     <<42752, 42785>>, <<42864, 42864>>, <<42888, 42890>>,
     <<42994, 42996>>, <<43000, 43001>>, <<43010, 43010>>,
     <<43014, 43014>>, <<43019, 43019>>, <<43045, 43046>>,
     <<43052, 43052>>, <<43204, 43205>>, <<43232, 43249>>,
     <<43263, 43263>>, <<43302, 43309>>, <<43335, 43345>>,
     <<43392, 43394>>, <<43443, 43443>>, <<43446, 43449>>,
     <<43452, 43453>>, <<43471, 43471>>, <<43493, 43494>>,
     <<43561, 43566>>, <<43569, 43570>>, <<43573, 43574>>,
     <<43587, 43587>>, <<43596, 43596>>, <<43632, 43632>>,
     <<43644, 43644>>, <<43696, 43696>>, <<43698, 43700>>,
     <<43703, 43704>>, <<43710, 43711>>, <<43713, 43713>>,
     <<43741, 43741>>, <<43756, 43757>>, <<43763, 43764>>,
     <<43766, 43766>>, <<43867, 43871>>, <<43881, 43883>>,
     <<44005, 44005>>, <<44008, 44008>>, <<44013, 44013>>,
     <<64286, 64286>>, <<64434, 64450>>, <<65024, 65039>>,
     <<65043, 65043>>, <<65056, 65071>>, <<65106, 65106>>,
     <<65109, 65109>>, <<65279, 65279>>, <<65287, 65287>>,
     <<65294, 65294>>, <<65306, 65306>>, <<65342, 65342>>,
     <<65344, 65344>>, <<65392, 65392>>, <<65438, 65439>>,
     <<65507, 65507>>, <<65529, 65531>>, <<66045, 66045>>,
     <<66272, 66272>>, <<66422, 66426>>, <<67456, 67461>>,
     <<67463, 67504>>, <<67506, 67514>>, <<68097, 68099>>,
     <<68101, 68102>>, <<68108, 68111>>, <<68152, 68154>>,
     <<68159, 68159>>, <<68325, 68326>>, <<68900, 68903>>,
     <<69291, 69292>>, <<69446, 69456>>, <<69506, 69509>>,
     <<69633, 69633>>, <<69688, 69702>>, <<69744, 69744>>,
     <<69747, 69748>>, <<69759, 69761>>, <<69811, 69814>>,
     <<69817, 69818>>, <<69821, 69821>>, <<69826, 69826>>,
     <<69837, 69837>>, <<69888, 69890>>, <<69927, 69931>>,
     <<69933, 69940>>, <<70003, 70003>>, <<70016, 70017>>,
     <<70070, 70078>>, <<70089, 70092>>, <<70095, 70095>>,
     <<70191, 70193>>, <<70196, 70196>>, <<70198, 70199>>,
     <<70206, 70206>>, <<70367, 70367>>, <<70371, 70378>>,
     <<70400, 70401>>, <<70459, 70460>>, <<70464, 70464>>,
     <<70502, 70508>>, <<70512, 70516>>, <<70712, 70719>>,
     <<70722, 70724>>, <<70726, 70726>>, <<70750, 70750>>,
     <<70835, 70840>>, <<70842, 70842>>, <<70847, 70848>>,
     <<70850, 70851>>, <<71090, 71093>>, <<71100, 71101>>,
     <<71103, 71104>>, <<71132, 71133>>, <<71219, 71226>>,
     <<71229, 71229>>, <<71231, 71232>>, <<71339, 71339>>,
     <<71341, 71341>>, <<71344, 71349>>, <<71351, 71351>>,
     <<71453, 71455>>, <<71458, 71461>>, <<71463, 71467>>,
     <<71727, 71735>>, <<71737, 71738>>, <<71995, 71996>>,
     <<71998, 71998>>, <<72003, 72003>>, <<72148, 72151>>,
     <<72154, 72155>>, <<72160, 72160>>, <<72193, 72202>>,
     <<72243, 72248>>, <<72251, 72254>>, <<72263, 72263>>,
     <<72273, 72278>>, <<72281, 72283>>, <<72330, 72342>>,
     <<72344, 72345>>, <<72752, 72758>>, <<72760, 72765>>,
     <<72767, 72767>>, <<72850, 72871>>, <<72874, 72880>>,
     <<72882, 72883>>, <<72885, 72886>>, <<73009, 73014>>,
     <<73018, 73018>>, <<73020, 73021>>, <<73023, 73029>>,
     <<73031, 73031>>, <<73104, 73105>>, <<73109, 73109>>,
     <<73111, 73111>>, <<73459, 73460>>, <<78896, 78904>>,
     <<92912, 92916>>, <<92976, 92982>>, <<92992, 92995>>,
     <<94031, 94031>>, <<94095, 94111>>, <<94176, 94177>>,
     <<94179, 94180>>, <<110576, 110579>>, <<110581, 110587>>,
     <<110589, 110590>>, <<113821, 113822>>, <<113824, 113827>>,
     <<118528, 118573>>, <<118576, 118598>>, <<119143, 119145>>,
     <<119155, 119170>>, <<119173, 119179>>, <<119210, 119213>>,
     <<119362, 119364>>, <<121344, 121398>>, <<121403, 121452>>,
     <<121461, 121461>>, <<121476, 121476>>, <<121499, 121503>>,
     <<121505, 121519>>, <<122880, 122886>>, <<122888, 122904>>,
     <<122907, 122913>>, <<122915, 122916>>, <<122918, 122922>>,
     <<123184, 123197>>, <<123566, 123566>>, <<123628, 123631>>,
     <<125136, 125142>>, <<125252, 125259>>, <<127995, 127999>>,
     <<917505, 917505>>, <<917536, 917631>>, <<917760, 917999>>}

\* c lies in one of the ranges <<first, last>> of faixas
na_faixa(c, faixas) == \E f \in faixas : f[1] <= c /\ c <= f[2]

\* the lower-case code point of c by the simple mappings, c when it has none
minuscula(c) ==
    IF \E m \in MINUSCULAS : m[1] <= c /\ c <= m[2] /\ (c - m[1]) % m[3] = 0
    THEN c + (CHOOSE m \in MINUSCULAS :
                m[1] <= c /\ c <= m[2] /\ (c - m[1]) % m[3] = 0)[4]
    ELSE c

\* minuscula of the code points below U+0400 (Latin and Greek), as a table
MINUSCULA_BAIXA == [c \in 0..1023 |-> minuscula(c)]

\* str.lower() of the one character c, a str of one or two characters:
\* U+0130 gives 'i' and U+0307, a capital sigma alone gives the small one
lower_char(c) ==
    IF c = 304 THEN <<105, 775>>
    ELSE IF c = 931 THEN <<963>>
    ELSE IF c \in DOMAIN MINUSCULA_BAIXA THEN <<MINUSCULA_BAIXA[c]>>
    ELSE <<minuscula(c)>>

\* the capital sigma at position i of s is final: going back over the
\* case-ignorable characters the first other one is cased, and going on
\* over them there is no other one or it is not cased
sigma_final(s, i) ==
    LET antes == {j \in 1..(i - 1) : ~na_faixa(s[j], IGNORAVEIS)}
        depois == {j \in (i + 1)..Len(s) : ~na_faixa(s[j], IGNORAVEIS)}
    IN  /\ antes # {}
        /\ na_faixa(s[CHOOSE j \in antes : \A k \in antes : k <= j],
                    COM_CAIXA)
        /\ \/ depois = {}
           \/ ~na_faixa(s[CHOOSE j \in depois : \A k \in depois : j <= k],
                        COM_CAIXA)

\* str.lower() from position i of s on
RECURSIVE lower_de(_, _)
lower_de(s, i) ==
    IF i > Len(s) THEN <<>>
    ELSE (IF s[i] = 931 /\ sigma_final(s, i) THEN <<962>>
          ELSE lower_char(s[i])) \o lower_de(s, i + 1)

\* str.lower()
lower(s) == lower_de(s, 1)

\* str.replace(de, para) for single characters
replace(s, de, para) == [i \in 1..Len(s) |-> IF s[i] = de THEN para ELSE s[i]]

\* the code points of the characters strip() removes (str.isspace())
ESPACOS ==
    {9, 10, 11, 12, 13, 28, 29, 30, 31, 32, 133, 160, 5760, 8192, 8193,
     8194, 8195, 8196, 8197, 8198, 8199, 8200, 8201, 8202, 8232, 8233,
     8239, 8287, 12288}

\* the characters the code writes into its keys and compares with
ESPACO == ord(" ")
SUBLINHADO == ord("_")
BARRA == ord("/")
HIFEN == ord("-")

\* str.lstrip()
RECURSIVE lstrip(_)
lstrip(s) == IF s # <<>> /\ Head(s) \in ESPACOS THEN lstrip(Tail(s)) ELSE s

\* str.rstrip()
RECURSIVE rstrip(_)
rstrip(s) ==
    IF s # <<>> /\ s[Len(s)] \in ESPACOS
    THEN rstrip(SubSeq(s, 1, Len(s) - 1)) ELSE s

\* str.strip()
strip(s) == rstrip(lstrip(s))

DIGITOS == literal(<<"0","1","2","3","4","5","6","7","8","9">>)

\* str(n) of a natural number
RECURSIVE str(_)
str(n) == IF n < 10 THEN <<DIGITOS[n + 1]>>
          ELSE str(n \div 10) \o <<DIGITOS[(n % 10) + 1]>>

\* f"{n:02d}"
fmt02d(n) == IF n < 10 THEN literal(<<"0">>) \o str(n) ELSE str(n)

\* f"{ano_sel}-{mes_num:02d}"
chave_mes(ano_sel, mes_num) ==
    str(ano_sel) \o <<HIFEN>> \o fmt02d(mes_num)

\* float(valor)
float(valor) == valor

\* x in lista
Contem(lista, x) == \E i \in 1..Len(lista) : lista[i] = x

\* lista.count(x)
Contagem(lista, x) == Cardinality({i \in 1..Len(lista) : lista[i] = x})

\* the values of a list
Valores(lista) == {lista[i] : i \in 1..Len(lista)}

----------------------------------------------------------------------------
(* Category names. *)

Salario    == literal(<<"S","a","l","á","r","i","o">>)
Freelance  == literal(<<"F","r","e","e","l","a","n","c","e">>)
Dividendos == literal(<<"D","i","v","i","d","e","n","d","o","s">>)
Bonus      == literal(<<"B","ô","n","u","s">>)
Aluguel    == literal(<<"A","l","u","g","u","e","l">>)
Condominio == literal(<<"C","o","n","d","o","m","í","n","i","o">>)
Mercado    == literal(<<"M","e","r","c","a","d","o">>)
Lazer      == literal(<<"L","a","z","e","r">>)
UberTransporte ==
    literal(<<"U","b","e","r","/","T","r","a","n","s","p","o","r","t","e">>)
Saude      == literal(<<"S","a","ú","d","e">>)
Assinaturas == literal(<<"A","s","s","i","n","a","t","u","r","a","s">>)
Educacao   == literal(<<"E","d","u","c","a","ç","ã","o">>)
CDB        == literal(<<"C","D","B">>)
Acoes      == literal(<<"A","ç","õ","e","s">>)
FIIs       == literal(<<"F","I","I","s">>)
Cripto     == literal(<<"C","r","i","p","t","o">>)
ReservaDeEmergencia ==
    literal(<<"R","e","s","e","r","v","a"," ","d","e"," ",
      "E","m","e","r","g","ê","n","c","i","a">>)
CaixinhaNubank ==
    literal(<<"C","a","i","x","i","n","h","a"," ","N","u","b","a","n","k">>)

\* config_padrao of carregar_configuracoes
config_padrao ==
    [receitas |-> <<Salario, Freelance, Dividendos, Bonus>>,
     despesas |-> <<Aluguel, Condominio, Mercado, Lazer, UberTransporte,
                    Saude, Assinaturas, Educacao>>,
     investimentos |-> <<CDB, Acoes, FIIs, Cripto, ReservaDeEmergencia,
                         CaixinhaNubank>>]

\* the keys of config_padrao
CAMPOS == {"receitas", "despesas", "investimentos"}

TIPOS == {"Receita", "Despesa", "Investimento"}

\* mapa_campos.get(tipo) of gerenciar_categoria
mapa_campos(tipo) ==
    CASE tipo = "Receita" -> "receitas"
      [] tipo = "Despesa" -> "despesas"
      [] tipo = "Investimento" -> "investimentos"
      [] OTHER -> None

----------------------------------------------------------------------------
(* The Firestore operations the code uses. *)

\* collection.document(id).set(doc): create or fully replace
Set(colecao, id, doc) ==
    [k \in DOMAIN colecao \cup {id} |-> IF k = id THEN doc ELSE colecao[k]]

\* mutant: the name is appended whether or not the list holds it
ArrayUnion_append(doc, campo, x) ==
    IF campo \notin DOMAIN doc THEN <<x>> ELSE Append(doc[campo], x)

\* firestore.ArrayUnion([x]) applied to field campo of doc
ArrayUnion(doc, campo, x) ==
    IF campo \notin DOMAIN doc THEN <<x>>
    ELSE IF Contem(doc[campo], x) THEN doc[campo]
    ELSE Append(doc[campo], x)

\* firestore.ArrayRemove([x]) applied to field campo of doc
ArrayRemove(doc, campo, x) ==
    IF campo \notin DOMAIN doc THEN <<>>
    ELSE SelectSeq(doc[campo], LAMBDA y : y # x)

----------------------------------------------------------------------------
(* class GerenciadorDados. Each method is an operator from the stores and  *)
(* the arguments to the stores after the call, the value returned and the  *)
(* number of writes the store committed.                                   *)

\* verificar_usuario(email): the value returned
verificar_usuario(us, email) ==
    IF email = <<>> THEN FALSE
    ELSE LET email_formatado == lower(strip(email))
         IN  \* document('') is no valid reference: the except branch
             IF email_formatado = <<>> THEN FALSE
             ELSE email_formatado \in DOMAIN us

\* mutant: the migration resets the whole profile to the defaults
MigrarSchema_destrutiva(dados) ==
    [chave \in DOMAIN dados \cup CAMPOS |-> config_padrao[chave]]

\* the migration loop of carregar_configuracoes over config_padrao.items()
MigrarSchema(dados) ==
    [chave \in DOMAIN dados \cup CAMPOS |->
        IF chave \in DOMAIN dados THEN dados[chave] ELSE config_padrao[chave]]

\* mutant: the default profile is returned but never stored
carregar_configuracoes_sem_gravar(us, email) ==
    IF email \notin DOMAIN us
    THEN [usuarios |-> us, ret |-> config_padrao, escritas |-> 0]
    ELSE [usuarios |-> us, ret |-> MigrarSchema(us[email]), escritas |-> 0]

\* carregar_configuracoes(email)
carregar_configuracoes(us, email) ==
    IF email \notin DOMAIN us
    THEN [usuarios |-> Set(us, email, config_padrao),
          ret |-> config_padrao, escritas |-> 1]
    ELSE LET dados == MigrarSchema(us[email])
             atualizou == \E chave \in CAMPOS : chave \notin DOMAIN us[email]
         IN  IF atualizou
             THEN [usuarios |-> Set(us, email, dados),
                   ret |-> dados, escritas |-> 1]
             ELSE [usuarios |-> us, ret |-> dados, escritas |-> 0]

\* carregar_configuracoes(email) when the store raises: the except branch
\* returns {} and nothing is written
carregar_configuracoes_falha(us) ==
    [usuarios |-> us, ret |-> [chave \in {} |-> chave], escritas |-> 0]

\* the composite document id of salvar_transacao
doc_id(email, mes_ano, categoria) ==
    email \o <<SUBLINHADO>> \o mes_ano \o <<SUBLINHADO>>
        \o lower(replace(categoria, ESPACO, SUBLINHADO))

\* the payload of salvar_transacao, written at server time agora
payload(email, mes_ano, categoria, tipo, valor, agora) ==
    [email |-> email, mes_ano |-> mes_ano, categoria |-> categoria,
     tipo |-> tipo, valor |-> float(valor),
     timestamp |-> agora, data_atualizacao |-> agora]

\* collection(...).document(id): the client splits the id at every "/" and
\* appends the parts to the name of the collection; the reference to a
\* document must have an even number of path elements, or the client raises
referencia_valida(id) == (1 + Contagem(id, BARRA) + 1) % 2 = 0

\* the reference names a document of the collection itself; with a "/" in
\* the id it names a document of a subcollection below one of them, which
\* a query on the collection does not return
na_colecao(id) == Contagem(id, BARRA) = 0

\* collection('lancamentos').document(id).set(doc) inside the try block of
\* salvar_transacao: document(id) raises for an id that is no reference to
\* a document, and the except branch returns False
document_set(lanc, id, doc) ==
    IF ~referencia_valida(id)
    THEN [lancamentos |-> lanc, ret |-> FALSE, escritas |-> 0]
    ELSE IF ~na_colecao(id)
    THEN [lancamentos |-> lanc, ret |-> TRUE, escritas |-> 1]
    ELSE [lancamentos |-> Set(lanc, id, doc), ret |-> TRUE, escritas |-> 1]

\* salvar_transacao(email, mes_ano, categoria, tipo, valor), committed at
\* server time agora: the collection after the call, the value returned and
\* the number of writes
salvar_transacao(lanc, email, mes_ano, categoria, tipo, valor, agora) ==
    document_set(lanc, doc_id(email, mes_ano, categoria),
                 payload(email, mes_ano, categoria, tipo, valor, agora))

\* buscar_todos_dados(email): the rows of the DataFrame returned
buscar_todos_dados(lanc, email) ==
    {lanc[d] : d \in {d \in DOMAIN lanc : lanc[d].email = email}}

\* buscar_todos_dados(email) when the store raises: the rows of the
\* pd.DataFrame() the except branch returns
buscar_todos_dados_falha == {}

\* mutant: removing a category also deletes its stored records
gerenciar_categoria_cascata(us, lanc, email, tipo, categoria, acao) ==
    [usuarios |-> us,
     lancamentos |->
        IF acao = "remover"
        THEN [d \in {d \in DOMAIN lanc : lanc[d].categoria # categoria}
                |-> lanc[d]]
        ELSE lanc,
     ret |-> "True", escritas |-> 1]

\* gerenciar_categoria(email, tipo, categoria, acao); the value returned is
\* written "True", "False" or None
gerenciar_categoria(us, lanc, email, tipo, categoria, acao) ==
    LET campo == mapa_campos(tipo)
    IN  IF campo = None
        THEN [usuarios |-> us, lancamentos |-> lanc, ret |-> None,
              escritas |-> 0]
        ELSE IF acao \notin {"adicionar", "remover"}
        THEN [usuarios |-> us, lancamentos |-> lanc, ret |-> "True",
              escritas |-> 0]
        ELSE IF email \notin DOMAIN us
        \* update() of a missing document raises NotFound
        THEN [usuarios |-> us, lancamentos |-> lanc, ret |-> "False",
              escritas |-> 0]
        ELSE LET lista == IF acao = "adicionar"
                          THEN ArrayUnion(us[email], campo, categoria)
                          ELSE ArrayRemove(us[email], campo, categoria)
             IN  [usuarios |-> Set(us, email, Set(us[email], campo, lista)),
                  lancamentos |-> lanc, ret |-> "True", escritas |-> 1]

----------------------------------------------------------------------------
(* Inputs of the model. *)

UsuarioA == literal(<<"a","@","x">>)
UsuarioB == literal(<<"b","@","x">>)
Pix == literal(<<"P","i","x">>)

\* document ids the callers pass as email
EmailsEntrada == {UsuarioA, UsuarioB}

\* texts typed into the login form; <<9>> is a tab
IdentificacoesEntrada ==
    {<<>>, <<ESPACO>>, UsuarioA, literal(<<"A","@","X">>),
     literal(<<" ","A","@","x"," ">>), UsuarioB,
     literal(<<"B","@","x">>) \o <<9>>}

\* the selected months, as chave_mes: the first and the last of MAPA_MESES
PeriodosEntrada == {chave_mes(AnoAtual, 1), chave_mes(AnoAtual, 12)}

\* category names passed to salvar_transacao and edited on screen
CategoriasEntrada == {CDB, Pix}

\* texts typed as the name of a category
NomesEntrada == {<<>>, <<ESPACO>>, Pix, <<9>> \o Pix \o <<ESPACO>>, CDB}

\* profiles found in 'usuarios' when the program starts: an older profile
\* lacking any of the three lists, the default profile, and a profile whose
\* lists were emptied down to one category by earlier removals
PerfilAntigo ==
    [receitas |-> <<Salario>>, despesas |-> <<Aluguel>>,
     investimentos |-> <<CDB>>]

PerfilReduzido ==
    [receitas |-> <<Salario>>, despesas |-> <<>>, investimentos |-> <<>>]

PerfisIniciais ==
    {[chave \in K |-> PerfilAntigo[chave]] : K \in SUBSET CAMPOS}
        \cup {config_padrao, PerfilReduzido}

ColecaoVazia == [k \in {} |-> k]

\* no request in flight
SemPedidos == [w \in {} |-> w]

----------------------------------------------------------------------------
(* GerenciadorDados called directly. No method touches both collections,   *)
(* so the calls are checked in two specifications: SpecPerfil, the methods *)
(* of the 'usuarios' collection over every initial profile, and            *)
(* SpecLancamentos, the methods of the 'lancamentos' collection together   *)
(* with the category mutations.                                            *)

ChamarVerificarUsuario ==
    \E email \in IdentificacoesEntrada :
        /\ ultima' = [op |-> "verificar_usuario", email |-> email,
                      ret |-> verificar_usuario(usuarios, email)]
        /\ UNCHANGED <<usuarios, lancamentos, usuario_logado, relogio, em_voo,
                       rerun_pendente>>

ChamarCarregarConfiguracoes ==
    \E email \in EmailsEntrada :
        LET r == carregar_configuracoes(usuarios, email)
        IN  /\ relogio + r.escritas <= MaxRelogio
            /\ usuarios' = r.usuarios
            /\ relogio' = relogio + r.escritas
            /\ ultima' = [op |-> "carregar_configuracoes", email |-> email,
                          ret |-> r.ret, escritas |-> r.escritas]
            /\ UNCHANGED <<lancamentos, usuario_logado, em_voo, rerun_pendente>>

\* a call of salvar_transacao with arguments drawn from the given sets
SalvarTransacaoCom(emails, periodos, categorias, tipos, valores) ==
    \E email \in emails, mes_ano \in periodos, categoria \in categorias :
        \* at MaxRelogio only a call that writes nothing is made
        /\ relogio = MaxRelogio =>
                ~referencia_valida(doc_id(email, mes_ano, categoria))
        /\ \E tipo \in tipos, valor \in valores :
           \E r \in {salvar_transacao(lancamentos, email, mes_ano, categoria,
                                      tipo, valor, relogio + 1)} :
            /\ relogio' = relogio + r.escritas
            /\ lancamentos' = r.lancamentos
            /\ ultima' = [op |-> "salvar_transacao", email |-> email,
                          mes_ano |-> mes_ano, categoria |-> categoria,
                          tipo |-> tipo, valor |-> valor, ret |-> r.ret]
        /\ UNCHANGED <<usuarios, usuario_logado, em_voo, rerun_pendente>>

\* the period of the calls made for 'Uber/Transporte'
PeriodoBarra == chave_mes(AnoAtual, 1)

\* amounts passed to salvar_transacao: a negative one, zero, the largest
ValoresChamada == {-1, 0, MaxValor}

ChamarSalvarTransacao ==
    \/ SalvarTransacaoCom(EmailsEntrada, PeriodosEntrada, CategoriasEntrada,
                          TIPOS, ValoresChamada)
    \/ SalvarTransacaoCom({UsuarioA}, {PeriodoBarra}, {UberTransporte},
                          {"Despesa"}, {MaxValor})

ChamarBuscarTodosDados ==
    \E email \in EmailsEntrada :
        /\ ultima' = [op |-> "buscar_todos_dados", email |-> email,
                      ret |-> buscar_todos_dados(lancamentos, email)]
        /\ UNCHANGED <<usuarios, lancamentos, usuario_logado, relogio, em_voo,
                       rerun_pendente>>

\* a call of gerenciar_categoria with arguments drawn from the given sets
GerenciarCategoriaCom(emails, tipos, nomes, acoes) ==
    \E email \in emails, tipo \in tipos, categoria \in nomes, acao \in acoes :
        LET r == gerenciar_categoria(usuarios, lancamentos, email, tipo,
                                     categoria, acao)
        IN  /\ relogio + r.escritas <= MaxRelogio
            /\ usuarios' = r.usuarios
            /\ lancamentos' = r.lancamentos
            /\ relogio' = relogio + r.escritas
            /\ ultima' = [op |-> "gerenciar_categoria", email |-> email,
                          tipo |-> tipo, categoria |-> categoria,
                          acao |-> acao, ret |-> r.ret,
                          escritas |-> r.escritas]
            /\ UNCHANGED <<usuario_logado, em_voo, rerun_pendente>>

InitPerfil ==
    /\ usuarios \in {ColecaoVazia}
            \cup {Set(ColecaoVazia, UsuarioA, p) : p \in PerfisIniciais}
    /\ lancamentos = ColecaoVazia
    /\ usuario_logado = SemUsuario
    /\ relogio = 0
    /\ ultima = [op |-> "inicio"]
    /\ em_voo = SemPedidos
    /\ rerun_pendente = FALSE

ChamarGerenciarCategoria ==
    \/ GerenciarCategoriaCom({UsuarioA}, TIPOS, NomesEntrada,
                             {"adicionar", "remover"})
    \/ GerenciarCategoriaCom({UsuarioB}, {"Receita"}, {Pix}, {"adicionar"})
    \/ GerenciarCategoriaCom({UsuarioA}, {"Outro"}, {Pix}, {"adicionar"})
    \/ GerenciarCategoriaCom({UsuarioA}, {"Receita"}, {Pix}, {"outra"})

NextPerfil ==
    \/ ChamarVerificarUsuario
    \/ ChamarCarregarConfiguracoes
    \/ ChamarGerenciarCategoria

SpecPerfil == InitPerfil /\ [][NextPerfil]_vars

InitLancamentos ==
    /\ usuarios = Set(ColecaoVazia, UsuarioA, PerfilAntigo)
    /\ lancamentos = ColecaoVazia
    /\ usuario_logado = SemUsuario
    /\ relogio = 0
    /\ ultima = [op |-> "inicio"]
    /\ em_voo = SemPedidos
    /\ rerun_pendente = FALSE

ChamarRemoverCategoria ==
    GerenciarCategoriaCom({UsuarioA}, TIPOS, {Salario, CDB}, {"remover"})

NextLancamentos ==
    \/ ChamarSalvarTransacao
    \/ ChamarBuscarTodosDados
    \/ ChamarRemoverCategoria

SpecLancamentos == InitLancamentos /\ [][NextLancamentos]_vars

----------------------------------------------------------------------------
(* salvar_transacao called by sessions that run at the same time. A call   *)
(* is two steps: the session builds the document id and the payload and    *)
(* sends document(doc_id).set(payload); the store commits the request, one *)
(* document write being atomic, and resolves SERVER_TIMESTAMP.             *)

\* the sessions of the user, each one a run of the script
Escritores == {"sessao1", "sessao2"}

\* salvar_transacao up to the call of set(): the request, built at agora
pedido_salvar(email, mes_ano, categoria, tipo, valor, agora) ==
    [doc_id |-> doc_id(email, mes_ano, categoria),
     payload |-> payload(email, mes_ano, categoria, tipo, valor, agora)]

\* document(doc_id) of the request gave a reference to a document, so that
\* set() is sent
pedido_enviado(pedido) == referencia_valida(pedido.doc_id)

\* mutant: a stored document keeps its kind, the other fields are written
confirmar_mesclando(lanc, pedido, agora) ==
    Set(lanc, pedido.doc_id,
        [pedido.payload EXCEPT
            !.timestamp = agora,
            !.tipo = IF pedido.doc_id \in DOMAIN lanc
                     THEN lanc[pedido.doc_id].tipo ELSE @])

\* the store commits document(doc_id).set(payload) at server time agora
confirmar(lanc, pedido, agora) ==
    IF ~na_colecao(pedido.doc_id) THEN lanc
    ELSE Set(lanc, pedido.doc_id,
             [pedido.payload EXCEPT !.timestamp = agora])

\* a session with no request in flight calls salvar_transacao: the request
\* is sent, or document(doc_id) raises and the call returns False
EnviarSalvarCom(periodos, categorias, tipos, valores) ==
    /\ relogio + Cardinality(DOMAIN em_voo) < MaxRelogio
    /\ \E w \in Escritores \ DOMAIN em_voo, mes_ano \in periodos,
          categoria \in categorias, tipo \in tipos, valor \in valores :
       \E pedido \in {pedido_salvar(UsuarioA, mes_ano, categoria, tipo,
                                    valor, relogio)} :
        /\ IF pedido_enviado(pedido)
           THEN /\ em_voo' = Set(em_voo, w, pedido)
                /\ UNCHANGED ultima
           ELSE /\ ultima' = [op |-> "salvar_transacao", escritor |-> w,
                              pedido |-> pedido, ret |-> FALSE]
                /\ UNCHANGED em_voo
        /\ UNCHANGED <<usuarios, lancamentos, usuario_logado, relogio,
                       rerun_pendente>>

EnviarSalvar ==
    \/ EnviarSalvarCom(PeriodosEntrada, CategoriasEntrada, TIPOS,
                       0..MaxValor)
    \/ EnviarSalvarCom({PeriodoBarra}, {UberTransporte}, {"Despesa"},
                       {MaxValor})

\* the store commits the request of one session
ConfirmarSalvar ==
    \E w \in DOMAIN em_voo :
        /\ relogio' = relogio + 1
        /\ lancamentos' = confirmar(lancamentos, em_voo[w], relogio')
        /\ em_voo' = [v \in DOMAIN em_voo \ {w} |-> em_voo[v]]
        /\ ultima' = [op |-> "confirmar", escritor |-> w,
                      pedido |-> em_voo[w],
                      anterior |->
                        IF em_voo[w].doc_id \in DOMAIN lancamentos
                        THEN <<lancamentos[em_voo[w].doc_id]>> ELSE <<>>]
        /\ UNCHANGED <<usuarios, usuario_logado, rerun_pendente>>

NextConcorrente ==
    \/ EnviarSalvar
    \/ ConfirmarSalvar

SpecConcorrente == InitLancamentos /\ [][NextConcorrente]_vars

----------------------------------------------------------------------------
(* The Streamlit script: one action per run of the script that the user    *)
(* triggers. tela_login runs while usuario_logado is None, app_principal   *)
(* otherwise.                                                              *)

\* min_value of the three st.number_input widgets
min_value == 0

\* values a number_input with min_value can return
ValoresTela == {v \in (-1)..MaxValor : v >= min_value}

\* a name the user typed for a category that differs from the default
\* 'CDB' in the case of its letters only
cdb_minusculo == literal(<<"c","d","b">>)

\* categories whose widgets the user acts on
CategoriasFoco == {Salario, CDB, Pix, cdb_minusculo, UberTransporte}

\* mutant: the text is looked up as typed, neither trimmed nor lower-cased
tela_login_sem_normalizar(us, texto) ==
    IF texto = <<>>
    THEN [usuario_logado |-> SemUsuario, resultado |-> "aviso",
          consultou |-> FALSE]
    ELSE IF texto \in DOMAIN us
    THEN [usuario_logado |-> texto, resultado |-> "autorizado",
          consultou |-> TRUE]
    ELSE [usuario_logado |-> SemUsuario, resultado |-> "negado",
          consultou |-> TRUE]

\* mutant: the session is opened whatever verificar_usuario answers
tela_login_sem_verificar(us, texto) ==
    LET email_input == lower(strip(texto))
    IN  IF email_input = <<>>
        THEN [usuario_logado |-> SemUsuario, resultado |-> "aviso",
              consultou |-> FALSE]
        ELSE [usuario_logado |-> email_input,
              resultado |-> IF email_input \in DOMAIN us
                            THEN "autorizado" ELSE "negado",
              consultou |-> TRUE]

\* tela_login with the form submitted holding texto
tela_login(us, texto) ==
    LET email_input == lower(strip(texto))
    IN  IF email_input = <<>>
        THEN [usuario_logado |-> SemUsuario, resultado |-> "aviso",
              consultou |-> FALSE]
        ELSE IF verificar_usuario(us, email_input)
        THEN [usuario_logado |-> email_input, resultado |-> "autorizado",
              consultou |-> TRUE]
        ELSE [usuario_logado |-> SemUsuario, resultado |-> "negado",
              consultou |-> TRUE]

\* df_completo[df_completo['mes_ano'] == chave_mes]
df_mes_atual(df_completo, chave) == {row \in df_completo : row.mes_ano = chave}

\* mapa_valores.get(categoria, 0.0) over the rows of the selected month
mapa_valores_get(df_mes, categoria) ==
    IF \E row \in df_mes : row.categoria = categoria
    THEN (CHOOSE row \in df_mes : row.categoria = categoria).valor
    ELSE 0

\* a list of category names as widgets of one tab
Aba(tipo, lista) ==
    [i \in 1..Len(lista) |-> [tipo |-> tipo, categoria |-> lista[i]]]

\* config_usuario.get(campo, [])
config_get(config, campo) == IF campo \in DOMAIN config THEN config[campo] ELSE <<>>

\* the number_input widgets of the page Lancamentos, in the order the
\* script reaches them: receitas (without the names that are also
\* investimentos), investimentos, despesas
Widgets(config) ==
    LET lista_investimentos == config_get(config, "investimentos")
    IN  Aba("Receita",
            SelectSeq(config_get(config, "receitas"),
                      LAMBDA c : ~Contem(lista_investimentos, c)))
        \o Aba("Investimento", lista_investimentos)
        \o Aba("Despesa", config_get(config, "despesas"))

\* mutant: every widget is saved, changed or not
RECURSIVE SalvarAlterados_sempre(_, _, _, _, _, _, _, _)
SalvarAlterados_sempre(lanc, agora, widgets, digitado, df_mes, usuario, chave, i) ==
    IF i > Len(widgets)
    THEN [lancamentos |-> lanc, relogio |-> agora, chamadas |-> <<>>]
    ELSE LET w == widgets[i]
             val_inicial == float(mapa_valores_get(df_mes, w.categoria))
             novo_valor == IF i \in DOMAIN digitado THEN digitado[i]
                           ELSE val_inicial
             s == salvar_transacao(lanc, usuario, chave, w.categoria, w.tipo,
                                   novo_valor, agora + 1)
             r == SalvarAlterados_sempre(s.lancamentos, agora + s.escritas,
                                         widgets, digitado, df_mes, usuario,
                                         chave, i + 1)
         IN  [r EXCEPT !.chamadas =
                <<[categoria |-> w.categoria, tipo |-> w.tipo,
                   valor |-> novo_valor]>> \o @]

\* the three loops of the page Lancamentos from widget i on: each widget
\* whose novo_valor differs from val_inicial calls salvar_transacao, and the
\* value the call returns is not looked at. digitado maps the widgets the
\* user changed to the values they now hold; every other widget returns its
\* val_inicial. The result holds the collection and the server time after
\* the loops and the calls made, as (categoria, tipo, valor)
RECURSIVE SalvarAlterados(_, _, _, _, _, _, _, _)
SalvarAlterados(lanc, agora, widgets, digitado, df_mes, usuario, chave, i) ==
    IF i > Len(widgets)
    THEN [lancamentos |-> lanc, relogio |-> agora, chamadas |-> <<>>]
    ELSE LET w == widgets[i]
             val_inicial == float(mapa_valores_get(df_mes, w.categoria))
             novo_valor == IF i \in DOMAIN digitado THEN digitado[i]
                           ELSE val_inicial
         IN  IF novo_valor # val_inicial
             THEN LET s == salvar_transacao(lanc, usuario, chave,
                                            w.categoria, w.tipo, novo_valor,
                                            agora + 1)
                      r == SalvarAlterados(s.lancamentos, agora + s.escritas,
                                           widgets, digitado, df_mes,
                                           usuario, chave, i + 1)
                  IN  [r EXCEPT !.chamadas =
                        <<[categoria |-> w.categoria, tipo |-> w.tipo,
                           valor |-> novo_valor]>> \o @]
             ELSE SalvarAlterados(lanc, agora, widgets, digitado, df_mes,
                                  usuario, chave, i + 1)

\* Series.str.startswith(prefixo) on one value
startswith(s, prefixo) ==
    /\ Len(s) >= Len(prefixo)
    /\ SubSeq(s, 1, Len(prefixo)) = prefixo

\* df_completo[df_completo['mes_ano'].str.startswith(str(ano_sel))]
df_ano_atual(df_completo, ano_sel) ==
    {row \in df_completo : startswith(row.mes_ano, str(ano_sel))}

\* Series.sum() of the column 'valor'
RECURSIVE soma_valor(_)
soma_valor(linhas) ==
    IF linhas = {} THEN 0
    ELSE LET row == CHOOSE row \in linhas : TRUE
         IN  row.valor + soma_valor(linhas \ {row})

\* df[df['tipo'] == tipo]['valor'].sum()
soma_tipo(df, tipo) == soma_valor({row \in df : row.tipo = tipo})

\* (inv / rec * 100) if rec > 0 else 0, kept exact as a fraction num/den
taxa_poupanca_real(inv, rec) ==
    IF rec > 0 THEN [num |-> inv * 100, den |-> rec]
    ELSE [num |-> 0, den |-> 1]

\* page Dashboard Pro, the "Calculos Base": a warning and no figure when the
\* month has no row
dashboard(df_mes) ==
    IF df_mes = {} THEN [aviso |-> TRUE]
    ELSE LET rec == soma_tipo(df_mes, "Receita")
             desp == soma_tipo(df_mes, "Despesa")
             inv == soma_tipo(df_mes, "Investimento")
         IN  [aviso |-> FALSE, rec |-> rec, desp |-> desp, inv |-> inv,
              saldo |-> rec - desp - inv,
              taxa_poupanca_real |-> taxa_poupanca_real(inv, rec)]

\* s < t as Python compares two str
RECURSIVE menor(_, _)
menor(s, t) ==
    IF t = <<>> THEN FALSE
    ELSE IF s = <<>> THEN TRUE
    ELSE IF s[1] = t[1] THEN menor(Tail(s), Tail(t))
    ELSE s[1] < t[1]

\* the sorted index of a pivot table
RECURSIVE sorted(_)
sorted(S) ==
    IF S = {} THEN <<>>
    ELSE LET m == CHOOSE m \in S : \A x \in S \ {m} : menor(m, x)
         IN  <<m>> \o sorted(S \ {m})

\* mutant: each entry is left as it is, nothing is accumulated
cumsum_sem_acumular(serie) == serie

\* Series.cumsum()
cumsum(serie) ==
    [i \in 1..Len(serie) |->
        soma_valor({[pos |-> j, valor |-> serie[j]] : j \in 1..i})]

\* df_ano_atual.pivot_table(index='mes_ano', columns='tipo', values='valor',
\* aggfunc='sum', fill_value=0) with the three columns ensured
pivot_table(df_ano) ==
    LET index == sorted({row.mes_ano : row \in df_ano})
    IN  [i \in 1..Len(index) |->
            LET df == {row \in df_ano : row.mes_ano = index[i]}
            IN  [mes_ano |-> index[i],
                 Receita |-> soma_tipo(df, "Receita"),
                 Despesa |-> soma_tipo(df, "Despesa"),
                 Investimento |-> soma_tipo(df, "Investimento")]]

\* page Visao Anual: pivot_anual with the columns Saldo and
\* Patrimonio_Acumulado; a notice and no table when the year has no row
visao_anual(df_ano) ==
    IF df_ano = {} THEN [aviso |-> TRUE]
    ELSE LET pivot == pivot_table(df_ano)
             acumulado == cumsum([i \in 1..Len(pivot) |->
                                      pivot[i].Investimento])
         IN  [aviso |-> FALSE,
              pivot_anual |->
                [i \in 1..Len(pivot) |->
                    [mes_ano |-> pivot[i].mes_ano,
                     Receita |-> pivot[i].Receita,
                     Despesa |-> pivot[i].Despesa,
                     Investimento |-> pivot[i].Investimento,
                     Saldo |-> pivot[i].Receita - pivot[i].Despesa
                                  - pivot[i].Investimento,
                     Patrimonio_Acumulado |-> acumulado[i]]]]

\* the allow-listed user's profile when the script starts: the default
\* profile, an older one without the investment list, a document with no
\* field yet, and the reduced profile
PerfisIniciaisTela ==
    {config_padrao, PerfilReduzido, [chave \in {} |-> chave],
     [chave \in {"receitas", "despesas"} |-> PerfilAntigo[chave]]}

Init ==
    /\ usuarios \in {ColecaoVazia}
            \cup {Set(ColecaoVazia, UsuarioA, p) : p \in PerfisIniciaisTela}
    /\ lancamentos = ColecaoVazia
    /\ usuario_logado = SemUsuario
    /\ relogio = 0
    /\ ultima = [op |-> "inicio"]
    /\ em_voo = SemPedidos
    /\ rerun_pendente = FALSE

\* tela_login: the form is submitted. An authorized login sets the
\* session, waits (time.sleep) and calls st.rerun(): the run it asks for is
\* a later step, and until it has run no widget of app_principal exists
Login ==
    /\ usuario_logado = SemUsuario
    /\ \E texto \in IdentificacoesEntrada :
       \E r \in {tela_login(usuarios, texto)} :
            /\ usuario_logado' = r.usuario_logado
            /\ rerun_pendente' = (r.resultado = "autorizado")
            /\ ultima' = [op |-> "login", texto |-> texto,
                          resultado |-> r.resultado,
                          consultou |-> r.consultou]
    /\ UNCHANGED <<usuarios, lancamentos, relogio, em_voo>>

\* app_principal: the button "Sair do Sistema"
Sair ==
    /\ usuario_logado # SemUsuario
    /\ ~rerun_pendente
    /\ usuario_logado' = SemUsuario
    /\ ultima' = [op |-> "sair"]
    /\ UNCHANGED <<usuarios, lancamentos, relogio, em_voo,
                       rerun_pendente>>

\* total_receitas, total_investido or total_despesas: the sum of novo_valor
\* over the widgets of the tab of tipo
total_da_aba(widgets, digitado, df_mes, tipo) ==
    soma_valor({[pos |-> i,
                 valor |-> IF i \in DOMAIN digitado THEN digitado[i]
                           ELSE float(mapa_valores_get(df_mes,
                                                       widgets[i].categoria))]
                : i \in {i \in DOMAIN widgets : widgets[i].tipo = tipo}})

\* the categories that have a widget in the tab of tipo
exibidas(widgets, tipo) ==
    {widgets[i].categoria :
        i \in {i \in DOMAIN widgets : widgets[i].tipo = tipo}}

\* the calls of a run of app_principal in which the store raises
CHAMADAS == {"buscar_todos_dados", "carregar_configuracoes"}

\* df_completo of a run in which the calls of falha raise
carregar_dados(lanc, usuario, falha) ==
    IF "buscar_todos_dados" \in falha THEN buscar_todos_dados_falha
    ELSE buscar_todos_dados(lanc, usuario)

\* config_usuario of a run in which the calls of falha raise, with the
\* store after the call
carregar_config(us, usuario, falha) ==
    IF "carregar_configuracoes" \in falha THEN carregar_configuracoes_falha(us)
    ELSE carregar_configuracoes(us, usuario)

\* app_principal, page Lancamentos: the user changed the value of at most
\* one widget (alterado, 0 for none); the calls of falha, one of falhas,
\* raise in the store. The run st.rerun() starts after a login is a run of
\* this page, the first of the menu, with no amount typed
Lancamentos(falhas) ==
    /\ usuario_logado # SemUsuario
    /\ \E chave \in PeriodosEntrada, falha \in falhas :
       \E c \in {carregar_config(usuarios, usuario_logado, falha)} :
        LET usuario == usuario_logado
            df_completo == carregar_dados(lancamentos, usuario, falha)
            df_mes == df_mes_atual(df_completo, chave)
        IN  \E widgets \in {Widgets(c.ret)} :
            \E alterado \in {i \in 1..Len(widgets) :
                                widgets[i].categoria \in CategoriasFoco}
                            \cup {0},
               v \in ValoresTela :
            /\ rerun_pendente => alterado = 0
            /\ alterado = 0 => v = min_value
            /\ alterado # 0 =>
                    v # float(mapa_valores_get(df_mes,
                                               widgets[alterado].categoria))
            /\ \E digitado \in {[i \in {alterado} \ {0} |-> v]} :
               \E r \in {SalvarAlterados(
                            lancamentos, relogio + c.escritas, widgets,
                            digitado, df_mes, usuario, chave, 1)} :
                /\ r.relogio <= MaxRelogio
                /\ usuarios' = c.usuarios
                /\ lancamentos' = r.lancamentos
                /\ relogio' = r.relogio
                /\ ultima' = [op |-> "lancamentos", chave_mes |-> chave,
                              falha |-> falha, pagina |-> "lancamentos",
                              alterado |-> IF alterado = 0
                                           THEN [tipo |-> None,
                                                 categoria |-> <<>>]
                                           ELSE widgets[alterado],
                              novo_valor |-> v,
                              chamadas |-> r.chamadas,
                              gravados |-> r.relogio - relogio - c.escritas,
                              exibidas |->
                                [tipo \in TIPOS |-> exibidas(widgets, tipo)],
                              total_receitas |->
                                total_da_aba(widgets, digitado, df_mes,
                                             "Receita"),
                              total_investido |->
                                total_da_aba(widgets, digitado, df_mes,
                                             "Investimento"),
                              total_despesas |->
                                total_da_aba(widgets, digitado, df_mes,
                                             "Despesa")]
    /\ rerun_pendente' = FALSE
    /\ UNCHANGED <<usuario_logado, em_voo>>

\* the page Lancamentos while the store answers
PaginaLancamentos == Lancamentos({{}})

\* app_principal, pages Dashboard Pro and Visao Anual, with the year and the
\* month selected among anos and meses: nothing is written but the schema
\* migration of carregar_configuracoes; the calls of falha, one of falhas,
\* raise in the store
Consulta(anos, meses, falhas) ==
    /\ usuario_logado # SemUsuario
    /\ ~rerun_pendente
    /\ \E menu_nav \in {"dashboard", "visao_anual"}, ano_sel \in anos,
          mes_num \in meses, falha \in falhas :
       \E c \in {carregar_config(usuarios, usuario_logado, falha)} :
        LET chave == chave_mes(ano_sel, mes_num)
            df_completo == carregar_dados(lancamentos, usuario_logado, falha)
        IN  /\ relogio + c.escritas <= MaxRelogio
            /\ usuarios' = c.usuarios
            /\ relogio' = relogio + c.escritas
            /\ ultima' = [op |-> menu_nav, chave_mes |-> chave,
                          ano_sel |-> ano_sel, falha |-> falha,
                          pagina |-> menu_nav,
                          painel |->
                            IF menu_nav = "dashboard"
                            THEN dashboard(df_mes_atual(df_completo, chave))
                            ELSE visao_anual(df_ano_atual(df_completo,
                                                          ano_sel))]
    /\ UNCHANGED <<lancamentos, usuario_logado, em_voo, rerun_pendente>>

\* the pages Dashboard Pro and Visao Anual for the months of PeriodosEntrada
PaginaConsulta == Consulta({AnoAtual}, {1, 12}, {{}})

\* app_principal, page Sistema: the button "Confirmar Inclusao"
SistemaAdicionar ==
    /\ usuario_logado # SemUsuario
    /\ ~rerun_pendente
    /\ \E tipo_add \in TIPOS, texto \in NomesEntrada :
        LET c == carregar_configuracoes(usuarios, usuario_logado)
            nome_add == strip(texto)
            r == IF nome_add # <<>>
                 THEN gerenciar_categoria(c.usuarios, lancamentos,
                                          usuario_logado, tipo_add, nome_add,
                                          "adicionar")
                 ELSE [usuarios |-> c.usuarios, lancamentos |-> lancamentos,
                       ret |-> "aviso", escritas |-> 0]
        IN  /\ relogio + c.escritas + r.escritas <= MaxRelogio
            /\ usuarios' = r.usuarios
            /\ lancamentos' = r.lancamentos
            /\ relogio' = relogio + c.escritas + r.escritas
            /\ ultima' = [op |-> "sistema_adicionar", tipo |-> tipo_add,
                          nome_add |-> nome_add, ret |-> r.ret]
    /\ UNCHANGED <<usuario_logado, em_voo, rerun_pendente>>

\* app_principal, page Sistema: the button "Confirmar Exclusao"
SistemaRemover ==
    /\ usuario_logado # SemUsuario
    /\ ~rerun_pendente
    /\ \E tipo_del \in TIPOS :
        LET c == carregar_configuracoes(usuarios, usuario_logado)
            lista_atual == config_get(c.ret, mapa_campos(tipo_del))
        IN  \E cat_del \in Valores(lista_atual) \cap CategoriasFoco :
            LET r == IF cat_del # <<>>
                     THEN gerenciar_categoria(c.usuarios, lancamentos,
                                              usuario_logado, tipo_del,
                                              cat_del, "remover")
                     ELSE [usuarios |-> c.usuarios,
                           lancamentos |-> lancamentos,
                           ret |-> None, escritas |-> 0]
            IN  /\ relogio + c.escritas + r.escritas <= MaxRelogio
                /\ usuarios' = r.usuarios
                /\ lancamentos' = r.lancamentos
                /\ relogio' = relogio + c.escritas + r.escritas
                /\ ultima' = [op |-> "sistema_remover", tipo |-> tipo_del,
                              categoria |-> cat_del, ret |-> r.ret]
    /\ UNCHANGED <<usuario_logado, em_voo, rerun_pendente>>

Next ==
    \/ Login
    \/ Sair
    \/ PaginaLancamentos
    \/ PaginaConsulta
    \/ SistemaAdicionar
    \/ SistemaRemover

Spec == Init /\ [][Next]_vars

----------------------------------------------------------------------------
(* The script for a user who added the category 'cdb' to the investments   *)
(* of an older profile that holds 'CDB'.                                   *)

PerfilNomes ==
    [receitas |-> <<Salario>>, despesas |-> <<Aluguel>>,
     investimentos |-> <<CDB, cdb_minusculo>>]

InitNomes ==
    /\ usuarios = Set(ColecaoVazia, UsuarioA, PerfilNomes)
    /\ lancamentos = ColecaoVazia
    /\ usuario_logado = UsuarioA
    /\ relogio = 0
    /\ ultima = [op |-> "inicio"]
    /\ em_voo = SemPedidos
    /\ rerun_pendente = FALSE

NextNomes ==
    \/ PaginaLancamentos
    \/ PaginaConsulta
    \/ SistemaAdicionar
    \/ SistemaRemover

SpecNomes == InitNomes /\ [][NextNomes]_vars

----------------------------------------------------------------------------
(* The script over a store that may raise while app_principal loads the    *)
(* user's data.                                                            *)

\* the calls that raise in one run: either of the two loads, or both
FalhasEntrada == (SUBSET CHAMADAS) \ {{}}

LancamentosComFalha == Lancamentos(FalhasEntrada)

ConsultaComFalha == Consulta({AnoAtual}, {1, 12}, FalhasEntrada)

NextFalha ==
    \/ Login
    \/ Sair
    \/ PaginaLancamentos
    \/ PaginaConsulta
    \/ SistemaAdicionar
    \/ SistemaRemover
    \/ LancamentosComFalha
    \/ ConsultaComFalha

SpecFalha == Init /\ [][NextFalha]_vars

----------------------------------------------------------------------------
(* The pages Dashboard Pro and Visao Anual over stored records: the user   *)
(* is logged in, 'lancamentos' holds records of three months of the        *)
(* current year and of one month of the year before.                       *)

\* the years of the selector "Ano de Referencia"
AnosPainel == {AnoAtual - 1, AnoAtual, AnoAtual + 1}

\* the months selected in "Mes de Referencia"
MesesPainel == {1, 2, 12}

\* the (period, category, kind) of the records that may be stored
SlotsPainel ==
    {[mes_ano |-> chave_mes(AnoAtual, 1), categoria |-> Salario,
      tipo |-> "Receita"],
     [mes_ano |-> chave_mes(AnoAtual, 1), categoria |-> Freelance,
      tipo |-> "Receita"],
     [mes_ano |-> chave_mes(AnoAtual, 1), categoria |-> Aluguel,
      tipo |-> "Despesa"],
     [mes_ano |-> chave_mes(AnoAtual, 1), categoria |-> CDB,
      tipo |-> "Investimento"],
     [mes_ano |-> chave_mes(AnoAtual, 2), categoria |-> CDB,
      tipo |-> "Investimento"],
     [mes_ano |-> chave_mes(AnoAtual, 12), categoria |-> CDB,
      tipo |-> "Investimento"],
     [mes_ano |-> chave_mes(AnoAtual, 12), categoria |-> Salario,
      tipo |-> "Receita"],
     [mes_ano |-> chave_mes(AnoAtual - 1, 12), categoria |-> CDB,
      tipo |-> "Investimento"]}

\* the amounts stored for a kind
ValoresPainel(tipo) ==
    CASE tipo = "Receita" -> {0, 5000}
      [] tipo = "Despesa" -> {1500}
      [] tipo = "Investimento" -> {500, 1000}

\* the records salvar_transacao stored for the slots of escolha, a function
\* from slots to amounts
ColecaoPainel(escolha) ==
    [d \in {doc_id(UsuarioA, s.mes_ano, s.categoria) : s \in DOMAIN escolha}
        |-> LET s == CHOOSE s \in DOMAIN escolha :
                        doc_id(UsuarioA, s.mes_ano, s.categoria) = d
            IN  payload(UsuarioA, s.mes_ano, s.categoria, s.tipo,
                        escolha[s], 0)]

EscolhasPainel ==
    UNION {{escolha \in [K -> {0, 500, 1000, 1500, 5000}] :
                \A s \in K : escolha[s] \in ValoresPainel(s.tipo)} :
           K \in SUBSET SlotsPainel}

InitPainel ==
    /\ usuarios = Set(ColecaoVazia, UsuarioA, config_padrao)
    /\ lancamentos \in {ColecaoPainel(escolha) : escolha \in EscolhasPainel}
    /\ usuario_logado = UsuarioA
    /\ relogio = 0
    /\ ultima = [op |-> "inicio"]
    /\ em_voo = SemPedidos
    /\ rerun_pendente = FALSE

PainelConsulta == Consulta(AnosPainel, MesesPainel, {{}})

NextPainel == PainelConsulta

SpecPainel == InitPainel /\ [][NextPainel]_vars

----------------------------------------------------------------------------
(* Properties of the 'lancamentos' collection, under SpecLancamentos.      *)

\* the (user, period, category) of a stored record
Tripla(doc) == <<doc.email, doc.mes_ano, doc.categoria>>

\* the document ids holding a record of the triple
DocsDaTripla(lanc, email, mes_ano, categoria) ==
    {d \in DOMAIN lanc : Tripla(lanc[d]) = <<email, mes_ano, categoria>>}

UmRegistroPorTripla ==
    \A d1, d2 \in DOMAIN lancamentos :
        Tripla(lancamentos[d1]) = Tripla(lancamentos[d2]) => d1 = d2

\* a step that is a call salvar_transacao
PassoSalvar == ultima'.op = "salvar_transacao"

SalvarSubstitui ==
    PassoSalvar =>
        LET u == ultima'
            antes == DocsDaTripla(lancamentos, u.email, u.mes_ano, u.categoria)
            depois == DocsDaTripla(lancamentos', u.email, u.mes_ano,
                                   u.categoria)
        IN  /\ Cardinality(depois) = 1
            /\ \A d \in depois :
                /\ lancamentos'[d].valor = u.valor
                /\ lancamentos'[d].tipo = u.tipo
                /\ lancamentos'[d].timestamp = relogio'
            /\ \A d \in antes :
                /\ d \in depois
                /\ DOMAIN lancamentos' = DOMAIN lancamentos
                /\ lancamentos'[d].timestamp >= lancamentos[d].timestamp

\* C1: the 'lancamentos' store holds at most one record per (user, period,
\* category); after a call salvar_transacao there is exactly one record of
\* the triple of the call, holding the amount and kind of the call, and a
\* call on a stored triple replaces its record: the number of records is
\* unchanged and the timestamp of the record does not go back.
C1_UpsertUmPorTripla == []UmRegistroPorTripla /\ [][SalvarSubstitui]_vars

\* C5: every record of 'lancamentos' has valor >= 0.
C5_ValorNaoNegativo ==
    \A d \in DOMAIN lancamentos : lancamentos[d].valor >= 0

\* a step that is a call gerenciar_categoria(..., 'remover')
PassoRemover ==
    /\ ultima'.op = "gerenciar_categoria"
    /\ ultima'.acao = "remover"

RemoverPreservaLancamentos ==
    PassoRemover =>
        /\ lancamentos' = lancamentos
        /\ \A email \in EmailsEntrada :
            \A row \in buscar_todos_dados(lancamentos, email) :
                row.categoria = ultima'.categoria =>
                    \E depois \in buscar_todos_dados(lancamentos', email) :
                        /\ Tripla(depois) = Tripla(row)
                        /\ depois.valor = row.valor

\* C6: gerenciar_categoria with acao='remover' leaves 'lancamentos'
\* unchanged: every record stored for the removed category is still returned
\* by buscar_todos_dados after the call, with the same amount.
C6_RemoverNaoApagaLancamentos == [][RemoverPreservaLancamentos]_vars

\* a category was removed from the profile and its record is still stored
C6_Witness ==
    /\ ultima.op = "gerenciar_categoria"
    /\ ultima.acao = "remover"
    /\ ultima.ret = "True"
    /\ \A campo \in CAMPOS :
        ~Contem(usuarios[ultima.email][campo], ultima.categoria)
    /\ \E row \in buscar_todos_dados(lancamentos, ultima.email) :
        /\ row.categoria = ultima.categoria
        /\ row.valor > 0

----------------------------------------------------------------------------
(* Properties of the 'usuarios' collection, under SpecPerfil.              *)

\* a step that is a call carregar_configuracoes
PassoCarregar == ultima'.op = "carregar_configuracoes"

\* the call follows another carregar_configuracoes of the same user
CarregarEmSeguida ==
    /\ PassoCarregar
    /\ ultima.op = "carregar_configuracoes"
    /\ ultima.email = ultima'.email

CarregarCriaUmaVez ==
    /\ (PassoCarregar /\ ultima'.email \notin DOMAIN usuarios) =>
            /\ ultima'.ret = config_padrao
            /\ ultima'.escritas = 1
            /\ usuarios' = Set(usuarios, ultima'.email, config_padrao)
    /\ (CarregarEmSeguida /\ ultima.ret = config_padrao) =>
            /\ ultima'.ret = config_padrao
            /\ ultima'.escritas = 0
            /\ usuarios' = usuarios

\* C2: carregar_configuracoes of a user with no stored profile writes the
\* default profile once and returns it; every further call in a row returns
\* the same content and writes nothing.
C2_CarregarIdempotente == [][CarregarCriaUmaVez]_vars

\* the second call in a row for the fresh user: same content, no write
C2_Witness ==
    /\ ultima.op = "carregar_configuracoes"
    /\ ultima.email = UsuarioB
    /\ ultima.escritas = 0
    /\ ultima.ret = config_padrao
    /\ usuarios[UsuarioB] = config_padrao

MigracaoAditiva ==
    /\ (PassoCarregar /\ ultima'.email \in DOMAIN usuarios) =>
        LET email == ultima'.email
            antes == usuarios[email]
            depois == usuarios'[email]
            faltam == CAMPOS \ DOMAIN antes
        IN  /\ DOMAIN depois = DOMAIN antes \cup CAMPOS
            /\ \A chave \in faltam : depois[chave] = config_padrao[chave]
            /\ \A chave \in DOMAIN antes : depois[chave] = antes[chave]
            /\ ultima'.ret = depois
            /\ ultima'.escritas = IF faltam = {} THEN 0 ELSE 1
            /\ \A outro \in DOMAIN usuarios' :
                outro # email =>
                    outro \in DOMAIN usuarios /\ usuarios'[outro] = usuarios[outro]
    /\ CarregarEmSeguida =>
            /\ ultima'.escritas = 0
            /\ usuarios' = usuarios
            /\ ultima'.ret = ultima.ret

\* C3: carregar_configuracoes of a stored profile lacking some of receitas,
\* despesas, investimentos sets exactly the missing fields to their
\* defaults, leaves the fields present unchanged, stores and returns the
\* completed profile; a second call right after it writes nothing.
C3_MigracaoAditiva == [][MigracaoAditiva]_vars

\* an older profile was completed: its own lists kept, the missing one set
C3_Witness ==
    /\ ultima.op = "carregar_configuracoes"
    /\ ultima.email = UsuarioA
    /\ ultima.escritas = 1
    /\ usuarios[UsuarioA].receitas = PerfilAntigo.receitas
    /\ usuarios[UsuarioA].despesas = PerfilAntigo.despesas
    /\ usuarios[UsuarioA].investimentos = config_padrao.investimentos
    /\ ultima.ret = usuarios[UsuarioA]

\* a step that is a call gerenciar_categoria that reached the store
PassoGerenciar ==
    /\ ultima'.op = "gerenciar_categoria"
    /\ ultima'.ret = "True"
    /\ ultima'.acao \in {"adicionar", "remover"}

GerenciarComoConjunto ==
    PassoGerenciar =>
        LET u == ultima'
            campo == mapa_campos(u.tipo)
            antes == config_get(usuarios[u.email], campo)
            depois == usuarios'[u.email][campo]
        IN  /\ u.acao = "adicionar" =>
                /\ Contagem(depois, u.categoria) = 1
                /\ Valores(depois) = Valores(antes) \cup {u.categoria}
                /\ Contem(antes, u.categoria) => depois = antes
            /\ u.acao = "remover" =>
                /\ ~Contem(depois, u.categoria)
                /\ Valores(depois) = Valores(antes) \ {u.categoria}
                /\ ~Contem(antes, u.categoria) => depois = antes
            /\ \A chave \in DOMAIN usuarios[u.email] \ {campo} :
                usuarios'[u.email][chave] = usuarios[u.email][chave]
            /\ DOMAIN usuarios'[u.email] = DOMAIN usuarios[u.email] \cup {campo}

\* C7: gerenciar_categoria changes the list of the given kind as a set:
\* after 'adicionar' the list holds the name exactly once, after 'remover'
\* it does not hold it, adding a name already there and removing a name not
\* there leave the list as it was, and the lists of the other two kinds are
\* never changed.
C7_CategoriasComoConjunto == [][GerenciarComoConjunto]_vars

\* a name already in the list was added again and the list holds it once
C7_Witness ==
    /\ ultima.op = "gerenciar_categoria"
    /\ ultima.acao = "adicionar"
    /\ ultima.ret = "True"
    /\ ultima.categoria = CDB
    /\ ultima.tipo = "Investimento"
    /\ usuarios[ultima.email] = config_padrao

\* a category name that is blank or only whitespace
NomeEmBranco(nome) == strip(nome) = <<>>

\* C8: gerenciar_categoria called with a blank or whitespace-only name
\* writes nothing, and no category list ever holds a blank name.
C8_NomeEmBrancoRejeitado ==
    /\ \A email \in DOMAIN usuarios : \A campo \in DOMAIN usuarios[email] :
        \A nome \in Valores(usuarios[email][campo]) : ~NomeEmBranco(nome)
    /\ (ultima.op = "gerenciar_categoria" /\ NomeEmBranco(ultima.categoria)) =>
            /\ ultima.escritas = 0
            /\ ultima.ret \notin {"True"}

----------------------------------------------------------------------------
(* Properties of the script, under Spec.                                   *)

\* the union of the category lists of a profile
UniaoCategorias(perfil) ==
    UNION {Valores(perfil[campo]) : campo \in DOMAIN perfil}

\* C4: once a profile holds its three lists, the union of receitas,
\* despesas and investimentos is never empty.
C4_UniaoNuncaVazia ==
    \A email \in DOMAIN usuarios :
        CAMPOS \subseteq DOMAIN usuarios[email] =>
            UniaoCategorias(usuarios[email]) # {}

\* C9: the login form trims and lower-cases the identifier before the
\* lookup: an empty or whitespace-only identifier is denied without a
\* lookup in 'usuarios'; any other is authorized if and only if the
\* normalized identifier is a document id of 'usuarios'.
C9_LoginNormaliza ==
    ultima.op = "login" =>
        LET normalizado == lower(strip(ultima.texto))
        IN  /\ normalizado = <<>> =>
                /\ ultima.resultado = "aviso"
                /\ ~ultima.consultou
                /\ usuario_logado = SemUsuario
            /\ normalizado # <<>> =>
                /\ ultima.consultou
                /\ ultima.resultado = "autorizado" <=>
                        normalizado \in DOMAIN usuarios
                /\ ultima.resultado \in {"autorizado", "negado"}
                /\ ultima.resultado = "autorizado" =>
                        usuario_logado = normalizado
            /\ ultima.texto = literal(<<" ","A","@","x"," ">>) =>
                (ultima.resultado = "autorizado" <=>
                    literal(<<"a","@","x">>) \in DOMAIN usuarios)

\* "  A@x " was typed and the session was opened for "a@x"
C9_Witness ==
    /\ ultima.op = "login"
    /\ ultima.texto = literal(<<" ","A","@","x"," ">>)
    /\ ultima.resultado = "autorizado"
    /\ usuario_logado = UsuarioA

SessaoInicial == usuario_logado = SemUsuario

SessaoPasso ==
    /\ (usuario_logado = SemUsuario /\ usuario_logado' # SemUsuario) =>
            /\ ultima'.op = "login"
            /\ ultima'.resultado = "autorizado"
            /\ usuario_logado' = lower(strip(ultima'.texto))
            /\ usuario_logado' \in DOMAIN usuarios
    /\ (ultima'.op = "login" /\ ultima'.resultado # "autorizado") =>
            usuario_logado' = SemUsuario
    /\ (usuario_logado # SemUsuario /\ usuario_logado' # usuario_logado) =>
            /\ ultima'.op = "sair"
            /\ usuario_logado' = SemUsuario
    /\ usuario_logado = SemUsuario =>
            /\ usuarios' = usuarios
            /\ lancamentos' = lancamentos
            /\ relogio' = relogio

\* C10: the session starts logged out; it is opened only by a login that was
\* authorized, for the normalized identifier; a denied or empty login leaves
\* it logged out; it is closed only by "Sair"; and nothing is written to
\* 'usuarios' or 'lancamentos' while logged out.
C10_MaquinaDeSessao == SessaoInicial /\ [][SessaoPasso]_vars

\* the user logged in, wrote, and signed out
C10_Witness ==
    /\ ultima.op = "sair"
    /\ usuario_logado = SemUsuario
    /\ relogio > 0
    /\ lancamentos # ColecaoVazia

----------------------------------------------------------------------------
(* Properties of the page Lancamentos, under Spec.                         *)

\* the amount stored for a category of a user in a period, 0 when none
ValorGuardado(lanc, email, mes_ano, categoria) ==
    LET docs == DocsDaTripla(lanc, email, mes_ano, categoria)
    IN  IF docs = {} THEN 0 ELSE lanc[CHOOSE d \in docs : TRUE].valor

\* the documents a step created or changed
DocsGravados ==
    {d \in DOMAIN lancamentos' :
        d \notin DOMAIN lancamentos \/ lancamentos'[d] # lancamentos[d]}

\* a step that is a run of the page Lancamentos with the store answering
PassoLancamentos ==
    /\ ultima'.op = "lancamentos"
    /\ ultima'.falha = {}

GravaSoAlterado ==
    PassoLancamentos =>
        LET u == ultima'
        IN  IF u.alterado.tipo = None
            THEN /\ u.chamadas = <<>>
                 /\ u.gravados = 0
                 /\ lancamentos' = lancamentos
            ELSE /\ u.novo_valor # ValorGuardado(lancamentos, usuario_logado,
                                                 u.chave_mes,
                                                 u.alterado.categoria)
                 /\ u.chamadas = <<[categoria |-> u.alterado.categoria,
                                    tipo |-> u.alterado.tipo,
                                    valor |-> u.novo_valor]>>
                 /\ DOMAIN lancamentos \subseteq DOMAIN lancamentos'
                 /\ Cardinality(DocsGravados) = u.gravados
                 /\ \A d \in DocsGravados :
                        /\ Tripla(lancamentos'[d])
                                = <<usuario_logado, u.chave_mes,
                                    u.alterado.categoria>>
                        /\ lancamentos'[d].valor = u.novo_valor
                        /\ lancamentos'[d].tipo = u.alterado.tipo

\* C15: a run of the page Lancamentos calls salvar_transacao for the (user,
\* selected period, category) of a displayed widget exactly when the amount
\* entered differs from the amount displayed, which is the amount stored for
\* the category in the period or 0 when none is stored, and what the call
\* stores is a record of that triple with the amount entered; a run in
\* which no amount changed makes no call and writes nothing.
C15_GravaSoAlterado == [][GravaSoAlterado]_vars

\* the amount 1 stored for CDB was changed to 0 on screen and saved
C15_Witness ==
    /\ ultima.op = "lancamentos"
    /\ ultima.falha = {}
    /\ ultima.alterado.categoria = CDB
    /\ ultima.novo_valor = 0
    /\ ultima.gravados = 1
    /\ relogio = 2
    /\ ValorGuardado(lancamentos, usuario_logado, ultima.chave_mes, CDB) = 0
    /\ DocsDaTripla(lancamentos, usuario_logado, ultima.chave_mes, CDB) # {}

\* the category names of a profile
NomesDoPerfil(config) ==
    UNION {Valores(config_get(config, campo)) : campo \in CAMPOS}

\* a save of one category leaves the amount read back for every other
\* category of the profile as it was
OutrasIntactas ==
    (PassoLancamentos /\ ultima'.alterado.tipo # None) =>
        \A outra \in NomesDoPerfil(usuarios'[usuario_logado])
                        \ {ultima'.alterado.categoria} :
            ValorGuardado(lancamentos', usuario_logado, ultima'.chave_mes,
                          outra)
                = ValorGuardado(lancamentos, usuario_logado,
                                ultima'.chave_mes, outra)

\* C16: for one user and period, two distinct category names of the
\* profile are stored as two distinct records: saving an amount for one
\* neither overwrites the record of the other nor changes the amount read
\* back for it.
C16_NomesDistintosRegistrosDistintos == [][OutrasIntactas]_vars

\* the tabs of the page Lancamentos that display a category and add its
\* amount to their total
AbasDe(categoria) == {tipo \in TIPOS : categoria \in ultima'.exibidas[tipo]}

\* every record stored for the user and the selected period enters at most
\* one of total_receitas, total_investido and total_despesas
ContadoUmaVez ==
    PassoLancamentos =>
        \A d \in DOMAIN lancamentos :
            (/\ lancamentos[d].email = usuario_logado
             /\ lancamentos[d].mes_ano = ultima'.chave_mes)
                => Cardinality(AbasDe(lancamentos[d].categoria)) <= 1

\* a record that is saved again keeps its kind
UmTipoSo ==
    PassoLancamentos =>
        \A d \in DOMAIN lancamentos \cap DOMAIN lancamentos' :
            Tripla(lancamentos'[d]) = Tripla(lancamentos[d])
                => lancamentos'[d].tipo = lancamentos[d].tipo

\* C17: whatever categories were added and removed, the amount stored for a
\* (user, period, category) enters at most one of the three totals of the
\* page Lancamentos and is only ever written with one kind: a name held by
\* more than one list of the profile is displayed and saved under one kind.
C17_UmTipoPorCategoria == [][ContadoUmaVez /\ UmTipoSo]_vars

----------------------------------------------------------------------------
(* Properties of the script over a failing store, under SpecFalha.         *)

\* a step that is a run of app_principal in which a load raised
PassoComFalha ==
    /\ ultima'.op \in {"lancamentos", "dashboard", "visao_anual"}
    /\ ultima'.falha # {}

\* the run stops at the failed load: no page is rendered from the value the
\* failed call returned and nothing is written
FalhaInterrompe ==
    PassoComFalha =>
        /\ ultima'.pagina = None
        /\ UNCHANGED <<usuarios, lancamentos, relogio>>

\* C11: when the store fails during carregar_configuracoes or
\* buscar_todos_dados the run of app_principal halts: it renders no page
\* from an empty profile or an empty record set standing in for the user's
\* data, and writes nothing.
C11_FalhaInterrompeSessao == [][FalhaInterrompe]_vars

----------------------------------------------------------------------------
(* Properties of the pages Dashboard Pro and Visao Anual, under            *)
(* SpecPainel.                                                             *)

\* the sum of the amounts of the documents D of 'lancamentos'
RECURSIVE SomaDocs(_, _)
SomaDocs(lanc, D) ==
    IF D = {} THEN 0
    ELSE LET d == CHOOSE d \in D : TRUE
         IN  lanc[d].valor + SomaDocs(lanc, D \ {d})

\* the total stored for a user, a period and a kind
TotalDoPeriodo(lanc, email, mes_ano, tipo) ==
    SomaDocs(lanc, {d \in DOMAIN lanc : /\ lanc[d].email = email
                                        /\ lanc[d].mes_ano = mes_ano
                                        /\ lanc[d].tipo = tipo})

\* the figures of the Dashboard are the totals of the month by kind, the
\* balance and the share of the income invested, in percent
FigurasDoMes(p, income, expense, investment) ==
    /\ ~p.aviso
    /\ p.rec = income
    /\ p.desp = expense
    /\ p.inv = investment
    /\ p.saldo = income - expense - investment
    /\ IF income = 0 THEN p.taxa_poupanca_real.num = 0
       ELSE p.taxa_poupanca_real.num * income
                = investment * 100 * p.taxa_poupanca_real.den

\* C12: the Dashboard of a month shows income, expense and investment equal
\* to the sums of the month's records of kind Receita, Despesa and
\* Investimento, netCash = income - expense - investment and savingsRate =
\* investment / income (0 when income is 0); for a month with no record all
\* these figures are 0.
C12_DashboardDoMes ==
    ultima.op = "dashboard" =>
        FigurasDoMes(ultima.painel,
                     TotalDoPeriodo(lancamentos, usuario_logado,
                                    ultima.chave_mes, "Receita"),
                     TotalDoPeriodo(lancamentos, usuario_logado,
                                    ultima.chave_mes, "Despesa"),
                     TotalDoPeriodo(lancamentos, usuario_logado,
                                    ultima.chave_mes, "Investimento"))

\* the periods of the year ano for which the user has a record
PeriodosDoAno(lanc, email, ano) ==
    {lanc[d].mes_ano :
        d \in {d \in DOMAIN lanc :
                 /\ lanc[d].email = email
                 /\ \E m \in 1..12 : lanc[d].mes_ano = chave_mes(ano, m)}}

\* the month number of a period key of the year ano
MesDe(ano, periodo) == CHOOSE m \in 1..12 : periodo = chave_mes(ano, m)

\* the investment totals of the first i periods of the table, added up
RECURSIVE Acumulado(_, _, _, _)
Acumulado(lanc, email, tabela, i) ==
    IF i = 0 THEN 0
    ELSE Acumulado(lanc, email, tabela, i - 1)
            + TotalDoPeriodo(lanc, email, tabela[i].mes_ano, "Investimento")

\* C13: the annual table lists the periods of the selected year that have
\* records in chronological order, and Patrimonio_Acumulado of a period is
\* the sum of the investment totals of the periods of that year up to and
\* including it: a period without investment records adds 0 and carries the
\* previous value forward, and with non-negative amounts the sequence never
\* decreases.
C13_AnualAcumulado ==
    (ultima.op = "visao_anual" /\ ~ultima.painel.aviso) =>
        LET tabela == ultima.painel.pivot_anual
            ano == ultima.ano_sel
            periodos == PeriodosDoAno(lancamentos, usuario_logado, ano)
        IN  /\ {tabela[i].mes_ano : i \in DOMAIN tabela} = periodos
            /\ Len(tabela) = Cardinality(periodos)
            /\ \A i, j \in DOMAIN tabela :
                    i < j => MesDe(ano, tabela[i].mes_ano)
                                < MesDe(ano, tabela[j].mes_ano)
            /\ \A i \in DOMAIN tabela :
                    tabela[i].Patrimonio_Acumulado
                        = Acumulado(lancamentos, usuario_logado, tabela, i)
            /\ (\A d \in DOMAIN lancamentos : lancamentos[d].valor >= 0) =>
                    \A i \in DOMAIN tabela :
                        i > 1 => tabela[i - 1].Patrimonio_Acumulado
                                    <= tabela[i].Patrimonio_Acumulado

\* the table of the current year: 1000 invested in January, 500 in February
\* and nothing in December give 1000, 1500, 1500, and the record of December
\* of the year before is left out
C13_Witness ==
    /\ ultima.op = "visao_anual"
    /\ ultima.ano_sel = AnoAtual
    /\ ~ultima.painel.aviso
    /\ \E d \in DOMAIN lancamentos :
            lancamentos[d].mes_ano = chave_mes(AnoAtual - 1, 12)
    /\ LET tabela == ultima.painel.pivot_anual
       IN  /\ Len(tabela) = 3
           /\ tabela[1].mes_ano = chave_mes(AnoAtual, 1)
           /\ tabela[2].mes_ano = chave_mes(AnoAtual, 2)
           /\ tabela[3].mes_ano = chave_mes(AnoAtual, 12)
           /\ tabela[1].Patrimonio_Acumulado = 1000
           /\ tabela[2].Patrimonio_Acumulado = 1500
           /\ tabela[3].Investimento = 0
           /\ tabela[3].Patrimonio_Acumulado = 1500

----------------------------------------------------------------------------
(* Properties of concurrent writers, under SpecConcorrente.                *)

\* the record of the triple of the write committed last is that write's
\* payload, field by field, stamped with its commit time
UltimoVence ==
    ultima.op = "confirmar" =>
        LET p == ultima.pedido.payload
            docs == DocsDaTripla(lancamentos, p.email, p.mes_ano, p.categoria)
        IN  /\ Cardinality(docs) = 1
            /\ \A d \in docs :
                /\ lancamentos[d].tipo = p.tipo
                /\ lancamentos[d].valor = p.valor
                /\ lancamentos[d].data_atualizacao = p.data_atualizacao
                /\ lancamentos[d].timestamp = relogio

\* C14: when sessions save the same (user, period, category) at the same
\* time, whatever the order in which the store commits their requests there
\* is one record of the triple, and it is entirely the payload of the write
\* committed last: its kind and amount come from that one writer.
C14_UltimoEscritorVence ==
    /\ \A d1, d2 \in DOMAIN lancamentos :
            Tripla(lancamentos[d1]) = Tripla(lancamentos[d2]) => d1 = d2
    /\ UltimoVence

\* two requests for one triple, of different kind and amount, were both in
\* flight before either was committed; the second commit replaced the record
\* of the first
C14_Witness ==
    /\ ultima.op = "confirmar"
    /\ em_voo = SemPedidos
    /\ relogio = 2
    /\ Cardinality(DOMAIN lancamentos) = 1
    /\ Len(ultima.anterior) = 1
    /\ ultima.anterior[1].data_atualizacao = 0
    /\ ultima.pedido.payload.data_atualizacao = 0
    /\ ultima.anterior[1].tipo # ultima.pedido.payload.tipo
    /\ ultima.anterior[1].valor # ultima.pedido.payload.valor

====
